---- MODULE Spec2Model ----
(***************************************************************************)
(* react-canvas-draw: the interaction state machine                        *)
(* (interactionStateMachine.js, kept here as src/unnamed/part_000) driven  *)
(* by the host component CanvasDraw (src/src/index.js).                    *)
(*                                                                         *)
(* Numbers.  Client coordinates are integers.  The view (pan, scale) and   *)
(* document-space points are exact rationals <<n, d>>, d > 0, in lowest    *)
(* terms, so that the zoom arithmetic is modelled without rounding.        *)
(*                                                                         *)
(* Left out: the canvases' rendering (drawPoints, clearWindow, applyView,  *)
(* loop and the mouseHasMoved / valuesChanged flags that only drive it),   *)
(* e.preventDefault(), console logging, and ScaleOrPanState.recentMetrics  *)
(* (written, never read).                                                  *)
(***************************************************************************)
EXTENDS Integers, Sequences, FiniteSets, TLC

VARIABLES
    interactionSM,  \* CanvasDraw.interactionSM: the current state object
    props,          \* CanvasDraw.props
    view,           \* CanvasDraw.coordSystem: [x, y, scale]
    points,         \* CanvasDraw.points: the in-progress stroke
    lines,          \* CanvasDraw.lines: the committed strokes
    lazy,           \* CanvasDraw.lazy: the pointer-smoothing filter
    fills,          \* the floodFill calls made by the last event, in order
    now,            \* the clock read by new Date().valueOf(), in ms
    raised,         \* a host handler threw a TypeError
    nEvents,        \* number of input events dispatched so far
    drawing,        \* the pixels of ctx.drawing: [width, height, data]
    undoImageQueue, \* CanvasDraw.undoImageQueue: snapshots of the pixels
    hung,           \* a flood-fill call is in a loop that never ends
    lastFill        \* the last call on the surface (fill, snapshot, undo) and how it ended

\* the variables of the gesture state machine and of the drawing surface
machineVars == <<interactionSM, props, view, points, lines, lazy, fills, now, raised, nEvents>>
surfaceVars == <<drawing, undoImageQueue, hung, lastFill>>

vars == <<interactionSM, props, view, points, lines, lazy, fills, now, raised, nEvents,
          drawing, undoImageQueue, hung, lastFill>>

---------------------------------------------------------------------------
(* Bounds of the model *)

MaxEvents == 3
MaxNow == 250
TickMs == 125

(* Program constants *)

TOUCH_SLOP == 10
PINCH_TIMEOUT_MS == 250
EdgeOffset == 80
EdgeShift == 500
CanvasWidth == 400
CanvasHeight == 400

---------------------------------------------------------------------------
(* Exact rational arithmetic *)

Abs(i) == IF i < 0 THEN -i ELSE i

RECURSIVE GCD(_, _)
GCD(a, b) == IF b = 0 THEN a ELSE GCD(b, a % b)

Rat(n, d) ==
    LET s == IF d < 0 THEN -1 ELSE 1
        g == GCD(Abs(n), Abs(d))
    IN  <<(s * n) \div g, (s * d) \div g>>

RInt(i) == <<i, 1>>
RAdd(a, b) == Rat(a[1] * b[2] + b[1] * a[2], a[2] * b[2])
RSub(a, b) == Rat(a[1] * b[2] - b[1] * a[2], a[2] * b[2])
RMul(a, b) == Rat(a[1] * b[1], a[2] * b[2])
RDiv(a, b) == Rat(a[1] * b[2], a[2] * b[1])
RLt(a, b) == a[1] * b[2] < b[1] * a[2]
RLe(a, b) == a[1] * b[2] <= b[1] * a[2]
RAbs(a) == <<Abs(a[1]), a[2]>>
RMin(a, b) == IF RLe(a, b) THEN a ELSE b
RMax(a, b) == IF RLe(a, b) THEN b ELSE a
\* Math.round: the nearest integer, halves rounded up
RRound(a) == (2 * a[1] + a[2]) \div (2 * a[2])

\* Math.sqrt on the squared distances the inputs produce (all perfect squares)
Sqrt(n) == CHOOSE r \in 0..n : r * r = n

---------------------------------------------------------------------------
(* Input events.  A mouse event carries clientX/clientY and no touch lists; *)
(* a touch event carries touches (the fingers down) and changedTouches,     *)
(* and its own clientX/clientY are undefined (never read: 0 here).          *)

Pt(x, y) == [clientX |-> x, clientY |-> y]

Event(ctrl, x, y, touches, changed, dy) ==
    [ctrlKey |-> ctrl, clientX |-> x, clientY |-> y,
     touches |-> touches, changedTouches |-> changed, deltaY |-> dy]

MouseEvent(ctrl, p) == Event(ctrl, p.clientX, p.clientY, <<>>, <<>>, 0)
TouchEvent(ctrl, ts) == Event(ctrl, 0, 0, ts, ts, 0)
TouchEndEvent(p) == Event(FALSE, 0, 0, <<>>, <<p>>, 0)

SinglePts == {Pt(0, 0), Pt(6, 0), Pt(6, 6)}
MousePts == {Pt(0, 0), Pt(6, 6)}
TouchPairs ==
    { <<Pt(0, 0), Pt(10, 0)>>, <<Pt(0, 0), Pt(30, 0)>>, <<Pt(12, 0), Pt(22, 0)>> }
WheelDeltas == {-50, 100}
WheelPts == {Pt(6, 6)}

MouseEvents(ctrls) == {MouseEvent(c, p) : c \in ctrls, p \in MousePts}
OneTouchEvents(ctrls) == {TouchEvent(c, <<p>>) : c \in ctrls, p \in SinglePts}
TwoTouchEvents(ctrls) == {TouchEvent(c, ts) : c \in ctrls, ts \in TouchPairs}

\* ctrlKey is read by DefaultState.handleDrawStart and handleMouseWheel only
TouchStartEvents == OneTouchEvents(BOOLEAN) \cup TwoTouchEvents(BOOLEAN)
DrawStartEvents == MouseEvents(BOOLEAN) \cup TouchStartEvents
DrawMoveEvents == MouseEvents({FALSE}) \cup OneTouchEvents({FALSE}) \cup TwoTouchEvents({FALSE})
DrawEndEvents == MouseEvents({FALSE}) \cup {TouchEndEvent(p) : p \in MousePts}
WheelEvents ==
    {Event(c, p.clientX, p.clientY, <<>>, <<>>, dy) :
        c \in BOOLEAN, p \in WheelPts, dy \in WheelDeltas}

Tools == {"Pencil", "FloodFill"}

---------------------------------------------------------------------------
(* The viewport transform (coordinateSystem.js) *)

minScale == <<33, 100>>
maxScale == <<3, 1>>
mouseZoomFactor == <<1, 100>>

IdentityView == [x |-> RInt(0), y |-> RInt(0), scale |-> RInt(1)]

\* the zoomExtents prop as the parent passes it by default
zoomExtents == [min |-> minScale, max |-> maxScale]

\* coordSystem.scaleExtents: assigned from props.zoomExtents at construction
\* and again after every update, so it is props.zoomExtents at every event
scaleExtents == props.zoomExtents

clampScale(s) == RMax(scaleExtents.min, RMin(scaleExtents.max, s))

\* coordSystem.scaleExtents = extents: the view is kept, its scale brought
\* into the new extents
setScaleExtents(v, extents) ==
    [v EXCEPT !.scale = RMax(extents.min, RMin(extents.max, @))]

resetView(v) == IdentityView

setView(v, nv) == [x |-> nv.x, y |-> nv.y, scale |-> clampScale(nv.scale)]

\* p: a client point with rational coordinates [x, y]
clientPointToViewPoint(v, p) ==
    [x |-> RDiv(RSub(p.x, v.x), v.scale), y |-> RDiv(RSub(p.y, v.y), v.scale)]

scaleAtClientPoint(v, deltaScale, p) ==
    LET newScale == clampScale(RAdd(v.scale, deltaScale))
        doc == clientPointToViewPoint(v, p)
    IN  IF newScale = v.scale THEN v
        ELSE [x |-> RSub(p.x, RMul(doc.x, newScale)),
              y |-> RSub(p.y, RMul(doc.y, newScale)),
              scale |-> newScale]

---------------------------------------------------------------------------
(* The pointer-smoothing filter (lazy-brush) with radius lazyRadius = 0:   *)
(* the brush follows the pointer.                                          *)

WindowCentre == [x |-> RInt(200), y |-> RInt(200)]

LazyInit == [pointer |-> WindowCentre, brush |-> WindowCentre]

LazyUpdate(lz, p, both) == [pointer |-> p, brush |-> p]

LazyIsEnabled == TRUE

---------------------------------------------------------------------------
(* Helpers of the state machine *)

clientPointFromEvent(e) ==
    IF Len(e.changedTouches) > 0
    THEN Pt(e.changedTouches[1].clientX, e.changedTouches[1].clientY)
    ELSE Pt(e.clientX, e.clientY)

RPt(p) == [x |-> RInt(p.clientX), y |-> RInt(p.clientY)]

viewPointFromEvent(v, e) == clientPointToViewPoint(v, RPt(clientPointFromEvent(e)))

SyntheticEvent(p) == Event(FALSE, p.clientX, p.clientY, <<Pt(p.clientX, p.clientY)>>, <<>>, 0)

\* the canvasDraw argument of the handlers
CanvasDraw ==
    [props |-> props, view |-> view, points |-> points, lines |-> lines,
     lazy |-> lazy, fills |-> fills]

\* what a handler leaves behind: the state object it returns and canvasDraw
Ret(s, cd) == [sm |-> s, cd |-> cd]

---------------------------------------------------------------------------
(* The state objects.  Every object has the same fields; <<>> stands for a *)
(* field that is unset (null or undefined).                                *)

NewState(t) ==
    [type |-> t, dragStart |-> <<>>, panStart |-> <<>>,
     startClientPoint |-> <<>>, startTimestamp |-> 0, deferredPoints |-> <<>>,
     start |-> <<>>, scaleStart |-> <<>>, isDrawing |-> FALSE]

DefaultState == NewState("Default")
DisabledState == NewState("Disabled")
PanState == NewState("Pan")
WaitForPinchState == [NewState("WaitForPinch") EXCEPT !.startTimestamp = now]
ScaleOrPanState == NewState("ScaleOrPan")
TouchPanState(scaleOrPanState) == [scaleOrPanState EXCEPT !.type = "TouchPan"]
TouchScaleState(scaleOrPanState) == [scaleOrPanState EXCEPT !.type = "TouchScale"]
DrawingState == NewState("Drawing")

\* the value of `this` in the module-level arrow function SUPPRESS_SCROLL
Undefined == NewState("undefined")

StateTypes ==
    {"Default", "Disabled", "Pan", "WaitForPinch", "ScaleOrPan", "TouchPan",
     "TouchScale", "Drawing"}

GestureTypes == StateTypes \ {"Default", "Disabled"}

\* An arrow function keeps the `this` of the module scope, which is
\* undefined; bind(this) in the class bodies cannot rebind it.
SUPPRESS_SCROLL(self, e, cd) == Ret(Undefined, cd)

---------------------------------------------------------------------------
(* The host's operations the state machine calls *)

\* floodFill: here only the call and its pixel are recorded
floodFill(cd, x, y) == [cd EXCEPT !.fills = Append(@, <<x, y>>)]

clampPointToDocument(cd, p) ==
    IF cd.props.clampLinesToDocument
    THEN [x |-> RMax(RMin(p.x, RInt(CanvasWidth)), RInt(0)),
          y |-> RMax(RMin(p.y, RInt(CanvasHeight)), RInt(0))]
    ELSE p

\* mutant: the history entry shares the in-progress array, which the reset
\* then empties
Mut_saveLine_shared(cd) ==
    IF Len(cd.points) < 2 THEN cd
    ELSE [cd EXCEPT
            !.lines = Append(@, [points |-> <<>>,
                                 brushColor |-> cd.props.brushColor,
                                 brushRadius |-> cd.props.brushRadius]),
            !.points = <<>>]

saveLine(cd) ==
    IF Len(cd.points) < 2 THEN cd
    ELSE [cd EXCEPT
            !.lines = Append(@, [points |-> cd.points,
                                 brushColor |-> cd.props.brushColor,
                                 brushRadius |-> cd.props.brushRadius]),
            !.points = <<>>]

---------------------------------------------------------------------------
(* DrawingState *)

\* mutant: the first event of a stroke appends one point, not two
Mut_DrawingState_handleDrawMove_onePoint(self, e, cd, shouldStartAtEdge) ==
    LET p == viewPointFromEvent(cd.view, e)
        cd1 == IF cd.props.tool = "FloodFill"
               THEN floodFill(cd, RRound(p.x), RRound(p.y))
               ELSE cd
        lazy1 == LazyUpdate(cd1.lazy, p, FALSE)
        brush == clampPointToDocument(cd1, lazy1.brush)
    IN  IF cd.props.tool \notin {"Pencil", "Eraser"}
        THEN Ret(self, cd1)
        ELSE Ret([self EXCEPT !.isDrawing = TRUE],
                 [cd1 EXCEPT !.lazy = lazy1, !.points = Append(@, brush)])

\* mutant: every event appends the brush position twice
Mut_DrawingState_handleDrawMove_twice(self, e, cd, shouldStartAtEdge) ==
    LET p == viewPointFromEvent(cd.view, e)
        cd1 == IF cd.props.tool = "FloodFill"
               THEN floodFill(cd, RRound(p.x), RRound(p.y))
               ELSE cd
        W == RInt(CanvasWidth)
        H == RInt(CanvasHeight)
        off == RInt(EdgeOffset)
        \* canvasDraw.lastX = x was assigned just above, so lastX is x here
        x == IF ~shouldStartAtEdge THEN p.x
             ELSE IF RLt(p.x, RInt(0)) /\ RLt(p.x, off) THEN RInt(0)
             ELSE IF RLe(W, p.x) /\ RLe(RSub(W, off), p.x) THEN RAdd(p.x, RInt(EdgeShift))
             ELSE p.x
        y == IF ~shouldStartAtEdge THEN p.y
             ELSE IF RLt(p.y, RInt(0)) /\ RLt(p.y, off) THEN RInt(0)
             ELSE IF RLe(H, p.y) /\ RLe(RSub(H, off), p.y) THEN RAdd(p.y, RInt(EdgeShift))
             ELSE p.y
        lazy1 == LazyUpdate(cd1.lazy, [x |-> x, y |-> y], FALSE)
        isDisabled == ~LazyIsEnabled
        brush == clampPointToDocument(cd1, lazy1.brush)
        pts1 == Append(cd1.points, brush)
    IN  IF cd.props.tool \notin {"Pencil", "Eraser"}
        THEN Ret(self, cd1)
        ELSE Ret([self EXCEPT !.isDrawing = TRUE],
                 [cd1 EXCEPT !.lazy = lazy1, !.points = Append(pts1, brush)])

\* mutant: after the fill the handler goes on to accumulate the stroke
Mut_DrawingState_handleDrawMove_fillAndStroke(self, e, cd, shouldStartAtEdge) ==
    LET p == viewPointFromEvent(cd.view, e)
        cd1 == IF cd.props.tool = "FloodFill"
               THEN floodFill(cd, RRound(p.x), RRound(p.y))
               ELSE cd
        lazy1 == LazyUpdate(cd1.lazy, p, FALSE)
        brush == clampPointToDocument(cd1, lazy1.brush)
        pts1 == IF ~self.isDrawing THEN Append(cd1.points, brush) ELSE cd1.points
    IN  Ret([self EXCEPT !.isDrawing = TRUE],
            [cd1 EXCEPT !.lazy = lazy1, !.points = Append(pts1, brush)])

DrawingState_handleDrawMove(self, e, cd, shouldStartAtEdge) ==
    LET p == viewPointFromEvent(cd.view, e)
        cd1 == IF cd.props.tool = "FloodFill"
               THEN floodFill(cd, RRound(p.x), RRound(p.y))
               ELSE cd
        W == RInt(CanvasWidth)
        H == RInt(CanvasHeight)
        off == RInt(EdgeOffset)
        \* canvasDraw.lastX = x was assigned just above, so lastX is x here
        x == IF ~shouldStartAtEdge THEN p.x
             ELSE IF RLt(p.x, RInt(0)) /\ RLt(p.x, off) THEN RInt(0)
             ELSE IF RLe(W, p.x) /\ RLe(RSub(W, off), p.x) THEN RAdd(p.x, RInt(EdgeShift))
             ELSE p.x
        y == IF ~shouldStartAtEdge THEN p.y
             ELSE IF RLt(p.y, RInt(0)) /\ RLt(p.y, off) THEN RInt(0)
             ELSE IF RLe(H, p.y) /\ RLe(RSub(H, off), p.y) THEN RAdd(p.y, RInt(EdgeShift))
             ELSE p.y
        lazy1 == LazyUpdate(cd1.lazy, [x |-> x, y |-> y], FALSE)
        isDisabled == ~LazyIsEnabled
        brush == clampPointToDocument(cd1, lazy1.brush)
        pts1 == IF ~self.isDrawing \/ isDisabled
                THEN Append(cd1.points, brush) ELSE cd1.points
    IN  IF cd.props.tool \notin {"Pencil", "Eraser"}
        THEN Ret(self, cd1)
        ELSE Ret([self EXCEPT !.isDrawing = TRUE],
                 [cd1 EXCEPT !.lazy = lazy1, !.points = Append(pts1, brush)])

DrawingState_handleDrawStart(self, e, cd, shouldStartAtEdge) ==
    LET cd1 == IF Len(e.touches) > 0
               THEN [cd EXCEPT !.lazy = LazyUpdate(@, viewPointFromEvent(cd.view, e), TRUE)]
               ELSE cd
    IN  DrawingState_handleDrawMove(self, e, cd1, shouldStartAtEdge)

\* mutant: the stroke is committed without the final move
Mut_DrawingState_handleDrawEnd(self, e, cd) == Ret(DefaultState, saveLine(cd))

DrawingState_handleDrawEnd(self, e, cd) ==
    LET r == DrawingState_handleDrawMove(self, e, cd, FALSE)
    IN  Ret(DefaultState, saveLine(r.cd))

---------------------------------------------------------------------------
(* ScaleOrPanState, TouchPanState, TouchScaleState *)

getTouchMetrics(e) ==
    LET t1 == clientPointFromEvent(MouseEvent(FALSE, e.touches[1]))
        t2 == clientPointFromEvent(MouseEvent(FALSE, e.touches[2]))
        dx == t2.clientX - t1.clientX
        dy == t2.clientY - t1.clientY
    IN  [t1 |-> t1, t2 |-> t2,
         distance |-> Sqrt(dx * dx + dy * dy),
         centroid |-> [x |-> Rat(t1.clientX + t2.clientX, 2),
                       y |-> Rat(t1.clientY + t2.clientY, 2)]]

TouchPanState_handleDrawStart(self, e, cd) == Ret(self, cd)

\* mutant: a dropped touch leaves the machine in TouchPan
Mut_TouchPanState_handleDrawMove(self, e, cd) ==
    IF Len(e.touches) < 2 THEN Ret(self, cd)
    ELSE LET m == getTouchMetrics(e)
             dx == RSub(m.centroid.x, self.start[1].centroid.x)
             dy == RSub(m.centroid.y, self.start[1].centroid.y)
         IN  Ret(self, [cd EXCEPT !.view =
                 setView(@, [x |-> RAdd(self.panStart[1].x, dx),
                             y |-> RAdd(self.panStart[1].y, dy),
                             scale |-> @.scale])])

TouchPanState_handleDrawMove(self, e, cd) ==
    IF Len(e.touches) < 2 THEN Ret(DefaultState, cd)
    ELSE LET m == getTouchMetrics(e)
             dx == RSub(m.centroid.x, self.start[1].centroid.x)
             dy == RSub(m.centroid.y, self.start[1].centroid.y)
         IN  Ret(self, [cd EXCEPT !.view =
                 setView(@, [x |-> RAdd(self.panStart[1].x, dx),
                             y |-> RAdd(self.panStart[1].y, dy),
                             scale |-> @.scale])])

TouchPanState_handleDrawEnd(self, e, cd) == Ret(DefaultState, cd)

TouchScaleState_handleDrawStart(self, e, cd) == Ret(self, cd)

\* mutant: the ratio is applied to the current scale, not to the baseline
Mut_TouchScaleState_handleDrawMove(self, e, cd) ==
    IF Len(e.touches) < 2 THEN Ret(DefaultState, cd)
    ELSE LET m == getTouchMetrics(e)
             targetScale == RMul(cd.view.scale,
                                 Rat(m.distance, self.start[1].distance))
             dScale == RSub(targetScale, cd.view.scale)
         IN  Ret(self, [cd EXCEPT !.view = scaleAtClientPoint(@, dScale, m.centroid)])

\* mutant: the scaling is anchored at the first touch, not at the centroid
Mut_TouchScaleState_handleDrawMove_t1(self, e, cd) ==
    IF Len(e.touches) < 2 THEN Ret(DefaultState, cd)
    ELSE LET m == getTouchMetrics(e)
             targetScale == RMul(self.scaleStart[1],
                                 Rat(m.distance, self.start[1].distance))
             dScale == RSub(targetScale, cd.view.scale)
         IN  Ret(self, [cd EXCEPT !.view = scaleAtClientPoint(@, dScale, RPt(m.t1))])

TouchScaleState_handleDrawMove(self, e, cd) ==
    IF Len(e.touches) < 2 THEN Ret(DefaultState, cd)
    ELSE LET m == getTouchMetrics(e)
             targetScale == RMul(self.scaleStart[1],
                                 Rat(m.distance, self.start[1].distance))
             dScale == RSub(targetScale, cd.view.scale)
         IN  Ret(self, [cd EXCEPT !.view = scaleAtClientPoint(@, dScale, m.centroid)])

TouchScaleState_handleDrawEnd(self, e, cd) == Ret(DefaultState, cd)

ScaleOrPanState_handleDrawStart(self, e, cd) ==
    IF Len(e.touches) < 2 THEN Ret(DefaultState, cd)
    ELSE Ret([self EXCEPT !.start = <<getTouchMetrics(e)>>,
                          !.panStart = <<[x |-> cd.view.x, y |-> cd.view.y]>>,
                          !.scaleStart = <<cd.view.scale>>],
             cd)

\* mutant: the pan test comes before the scale test
Mut_ScaleOrPanState_handleDrawMove(self, e, cd) ==
    IF Len(e.touches) < 2 THEN Ret(DefaultState, cd)
    ELSE LET m == getTouchMetrics(e)
             dd == Abs(m.distance - self.start[1].distance)
             dx == RSub(m.centroid.x, self.start[1].centroid.x)
             dy == RSub(m.centroid.y, self.start[1].centroid.y)
             dc == RAdd(RAbs(dx), RAbs(dy))
         IN  IF RLe(RInt(TOUCH_SLOP), dc)
             THEN TouchPanState_handleDrawMove(TouchPanState(self), e, cd)
             ELSE IF dd >= TOUCH_SLOP
             THEN TouchScaleState_handleDrawMove(TouchScaleState(self), e, cd)
             ELSE Ret(self, cd)

ScaleOrPanState_handleDrawMove(self, e, cd) ==
    IF Len(e.touches) < 2 THEN Ret(DefaultState, cd)
    ELSE LET m == getTouchMetrics(e)
             dd == Abs(m.distance - self.start[1].distance)
             dx == RSub(m.centroid.x, self.start[1].centroid.x)
             dy == RSub(m.centroid.y, self.start[1].centroid.y)
             dc == RAdd(RAbs(dx), RAbs(dy))
         IN  IF dd >= TOUCH_SLOP
             THEN TouchScaleState_handleDrawMove(TouchScaleState(self), e, cd)
             ELSE IF RLe(RInt(TOUCH_SLOP), dc)
             THEN TouchPanState_handleDrawMove(TouchPanState(self), e, cd)
             ELSE Ret(self, cd)

ScaleOrPanState_handleDrawEnd(self, e, cd) == Ret(DefaultState, cd)

---------------------------------------------------------------------------
(* WaitForPinchState *)

\* the loop of issueDeferredPoints from index i (1-based) on
RECURSIVE issueDeferredLoop(_, _, _, _)
issueDeferredLoop(pts, i, nextState, cd) ==
    IF i > Len(pts) THEN Ret(nextState, cd)
    ELSE LET syntheticEvt == SyntheticEvent(pts[i])
             r == IF i = 1
                  THEN DrawingState_handleDrawStart(nextState, syntheticEvt, cd, FALSE)
                  ELSE DrawingState_handleDrawMove(nextState, syntheticEvt, cd, FALSE)
         IN  issueDeferredLoop(pts, i + 1, r.sm, r.cd)

\* mutant: the loop stops one point early
Mut_WaitForPinchState_issueDeferredPoints(self, cd) ==
    issueDeferredLoop(SubSeq(self.deferredPoints, 1, Len(self.deferredPoints) - 1),
                      1, DrawingState, cd)

WaitForPinchState_issueDeferredPoints(self, cd) ==
    issueDeferredLoop(self.deferredPoints, 1, DrawingState, cd)

\* mutant: the slop is measured from the previous point, not from the first
Mut_WaitForPinchState_handleDrawMove(self, e, cd) ==
    IF Len(e.touches) >= 2
    THEN ScaleOrPanState_handleDrawStart(ScaleOrPanState, e, cd)
    ELSE LET clientPt == clientPointFromEvent(e)
             self1 == [self EXCEPT !.deferredPoints = Append(@, clientPt)]
             inTime == now - self.startTimestamp < PINCH_TIMEOUT_MS
             prev == IF self.deferredPoints = <<>> THEN clientPt
                     ELSE self.deferredPoints[Len(self.deferredPoints)]
             self2 == IF inTime /\ self1.startClientPoint = <<>>
                      THEN [self1 EXCEPT !.startClientPoint = <<clientPt>>]
                      ELSE self1
         IN  IF inTime
                /\ Abs(clientPt.clientX - prev.clientX)
                   + Abs(clientPt.clientY - prev.clientY)
                   < TOUCH_SLOP
             THEN Ret(self2, cd)
             ELSE WaitForPinchState_issueDeferredPoints(self2, cd)

\* mutant: the slop is measured along the path travelled
Mut_WaitForPinchState_handleDrawMove_path(self, e, cd) ==
    IF Len(e.touches) >= 2
    THEN ScaleOrPanState_handleDrawStart(ScaleOrPanState, e, cd)
    ELSE LET clientPt == clientPointFromEvent(e)
             self1 == [self EXCEPT !.deferredPoints = Append(@, clientPt)]
             inTime == now - self.startTimestamp < PINCH_TIMEOUT_MS
             self2 == IF inTime /\ self1.startClientPoint = <<>>
                      THEN [self1 EXCEPT !.startClientPoint = <<clientPt>>]
                      ELSE self1
             pts == self1.deferredPoints
             steps == [i \in 1..(Len(pts) - 1) |->
                          Abs(pts[i + 1].clientX - pts[i].clientX)
                          + Abs(pts[i + 1].clientY - pts[i].clientY)]
             travelled == IF Len(steps) = 0 THEN 0
                          ELSE IF Len(steps) = 1 THEN steps[1]
                          ELSE IF Len(steps) = 2 THEN steps[1] + steps[2]
                          ELSE steps[1] + steps[2] + steps[3]
         IN  IF inTime /\ travelled < TOUCH_SLOP
             THEN Ret(self2, cd)
             ELSE WaitForPinchState_issueDeferredPoints(self2, cd)

\* mutant: the timeout is tested before the number of touches
Mut_WaitForPinchState_handleDrawMove_timeoutFirst(self, e, cd) ==
    LET clientPt == clientPointFromEvent(e)
        self1 == [self EXCEPT !.deferredPoints = Append(@, clientPt)]
        inTime == now - self.startTimestamp < PINCH_TIMEOUT_MS
        self2 == IF inTime /\ self1.startClientPoint = <<>>
                 THEN [self1 EXCEPT !.startClientPoint = <<clientPt>>]
                 ELSE self1
    IN  IF ~ inTime THEN WaitForPinchState_issueDeferredPoints(self1, cd)
        ELSE IF Len(e.touches) >= 2
        THEN ScaleOrPanState_handleDrawStart(ScaleOrPanState, e, cd)
        ELSE IF Abs(clientPt.clientX - self2.startClientPoint[1].clientX)
                + Abs(clientPt.clientY - self2.startClientPoint[1].clientY)
                < TOUCH_SLOP
        THEN Ret(self2, cd)
        ELSE WaitForPinchState_issueDeferredPoints(self2, cd)

WaitForPinchState_handleDrawMove(self, e, cd) ==
    IF Len(e.touches) >= 2
    THEN ScaleOrPanState_handleDrawStart(ScaleOrPanState, e, cd)
    ELSE LET clientPt == clientPointFromEvent(e)
             self1 == [self EXCEPT !.deferredPoints = Append(@, clientPt)]
             inTime == now - self.startTimestamp < PINCH_TIMEOUT_MS
             self2 == IF inTime /\ self1.startClientPoint = <<>>
                      THEN [self1 EXCEPT !.startClientPoint = <<clientPt>>]
                      ELSE self1
         IN  IF inTime
                /\ Abs(clientPt.clientX - self2.startClientPoint[1].clientX)
                   + Abs(clientPt.clientY - self2.startClientPoint[1].clientY)
                   < TOUCH_SLOP
             THEN Ret(self2, cd)
             ELSE WaitForPinchState_issueDeferredPoints(self2, cd)

\* mutant: pan/zoom being off no longer sends a touch straight to Drawing
Mut_WaitForPinchState_handleDrawStart(self, e, cd, shouldStartAtEdge) ==
    IF Len(e.touches) = 0
    THEN DrawingState_handleDrawStart(DrawingState, e, cd, shouldStartAtEdge)
    ELSE IF Len(e.touches) >= 2
    THEN ScaleOrPanState_handleDrawStart(ScaleOrPanState, e, cd)
    ELSE WaitForPinchState_handleDrawMove(self, e, cd)

WaitForPinchState_handleDrawStart(self, e, cd, shouldStartAtEdge) ==
    IF Len(e.touches) = 0 \/ ~cd.props.enablePanAndZoom
    THEN DrawingState_handleDrawStart(DrawingState, e, cd, shouldStartAtEdge)
    ELSE IF cd.props.enablePanAndZoom /\ Len(e.touches) >= 2
    THEN ScaleOrPanState_handleDrawStart(ScaleOrPanState, e, cd)
    ELSE WaitForPinchState_handleDrawMove(self, e, cd)

\* mutant: the buffered points are dropped, only the end event is drawn
Mut_WaitForPinchState_handleDrawEnd(self, e, cd) ==
    DrawingState_handleDrawEnd(DrawingState, e, cd)

WaitForPinchState_handleDrawEnd(self, e, cd) ==
    LET r == WaitForPinchState_issueDeferredPoints(self, cd)
    IN  DrawingState_handleDrawEnd(r.sm, e, r.cd)

---------------------------------------------------------------------------
(* PanState *)

PanState_handleDrawStart(self, e, cd) ==
    Ret([self EXCEPT !.dragStart = <<clientPointFromEvent(e)>>,
                     !.panStart = <<[x |-> cd.view.x, y |-> cd.view.y]>>],
        cd)

\* mutant: a pan move gives way to the disabled flag
Mut_PanState_handleDrawMove_disabled(self, e, cd) ==
    IF cd.props.disabled THEN Ret(DisabledState, cd)
    ELSE LET c == clientPointFromEvent(e)
             dx == c.clientX - self.dragStart[1].clientX
             dy == c.clientY - self.dragStart[1].clientY
         IN  Ret(self, [cd EXCEPT !.view =
                 setView(@, [x |-> RAdd(self.panStart[1].x, RInt(dx)),
                             y |-> RAdd(self.panStart[1].y, RInt(dy)),
                             scale |-> @.scale])])

\* mutant: a pan move adds the drag to the current pan, not to the pan the
\* gesture started with
Mut_PanState_handleDrawMove_accumulate(self, e, cd) ==
    LET c == clientPointFromEvent(e)
        dx == c.clientX - self.dragStart[1].clientX
        dy == c.clientY - self.dragStart[1].clientY
    IN  Ret(self, [cd EXCEPT !.view =
            setView(@, [x |-> RAdd(@.x, RInt(dx)),
                        y |-> RAdd(@.y, RInt(dy)),
                        scale |-> @.scale])])

PanState_handleDrawMove(self, e, cd) ==
    LET c == clientPointFromEvent(e)
        dx == c.clientX - self.dragStart[1].clientX
        dy == c.clientY - self.dragStart[1].clientY
    IN  Ret(self, [cd EXCEPT !.view =
            setView(@, [x |-> RAdd(self.panStart[1].x, RInt(dx)),
                        y |-> RAdd(self.panStart[1].y, RInt(dy)),
                        scale |-> @.scale])])

\* mutant: lifting the pointer leaves the machine in Pan
Mut_PanState_handleDrawEnd(self, e, cd) == Ret(self, cd)

PanState_handleDrawEnd(self, e, cd) == Ret(DefaultState, cd)

---------------------------------------------------------------------------
(* DefaultState, DisabledState *)

\* mutant: the wheel adds to the scale itself, past the coordinate system
Mut_DefaultState_handleMouseWheel(self, e, cd) ==
    IF cd.props.disabled THEN Ret(DisabledState, cd)
    ELSE IF cd.props.enablePanAndZoom /\ e.ctrlKey
    THEN Ret(self, [cd EXCEPT !.view.scale =
             RAdd(@, RMul(mouseZoomFactor, RInt(e.deltaY)))])
    ELSE Ret(self, cd)

\* mutant: the wheel zooms whether pan/zoom is enabled or not
Mut_DefaultState_handleMouseWheel_always(self, e, cd) ==
    IF cd.props.disabled THEN Ret(DisabledState, cd)
    ELSE IF e.ctrlKey
    THEN Ret(self, [cd EXCEPT !.view =
             scaleAtClientPoint(@, RMul(mouseZoomFactor, RInt(e.deltaY)),
                                RPt(clientPointFromEvent(e)))])
    ELSE Ret(self, cd)

\* mutant: the wheel zooms without the modifier key
Mut_DefaultState_handleMouseWheel_noCtrl(self, e, cd) ==
    IF cd.props.disabled THEN Ret(DisabledState, cd)
    ELSE IF cd.props.enablePanAndZoom
    THEN Ret(self, [cd EXCEPT !.view =
             scaleAtClientPoint(@, RMul(mouseZoomFactor, RInt(e.deltaY)),
                                RPt(clientPointFromEvent(e)))])
    ELSE Ret(self, cd)

DefaultState_handleMouseWheel(self, e, cd) ==
    IF cd.props.disabled THEN Ret(DisabledState, cd)
    ELSE IF cd.props.enablePanAndZoom /\ e.ctrlKey
    THEN Ret(self, [cd EXCEPT !.view =
             scaleAtClientPoint(@, RMul(mouseZoomFactor, RInt(e.deltaY)),
                                RPt(clientPointFromEvent(e)))])
    ELSE Ret(self, cd)

\* mutant: the modifier starts a pan even when pan/zoom is off
Mut_DefaultState_handleDrawStart(self, e, cd, shouldStartAtEdge) ==
    IF cd.props.disabled THEN Ret(DisabledState, cd)
    ELSE IF e.ctrlKey
    THEN PanState_handleDrawStart(PanState, e, cd)
    ELSE WaitForPinchState_handleDrawStart(WaitForPinchState, e, cd, shouldStartAtEdge)

DefaultState_handleDrawStart(self, e, cd, shouldStartAtEdge) ==
    IF cd.props.disabled THEN Ret(DisabledState, cd)
    ELSE IF e.ctrlKey /\ cd.props.enablePanAndZoom
    THEN PanState_handleDrawStart(PanState, e, cd)
    ELSE WaitForPinchState_handleDrawStart(WaitForPinchState, e, cd, shouldStartAtEdge)

DefaultState_handleDrawMove(self, e, cd) ==
    IF cd.props.disabled THEN Ret(DisabledState, cd)
    ELSE Ret(self, [cd EXCEPT !.lazy = LazyUpdate(@, viewPointFromEvent(cd.view, e), FALSE)])

DefaultState_handleDrawEnd(self, e, cd) ==
    IF cd.props.disabled THEN Ret(DisabledState, cd) ELSE Ret(self, cd)

DisabledState_handleMouseWheel(self, e, cd) ==
    IF cd.props.disabled THEN Ret(self, cd)
    ELSE DefaultState_handleMouseWheel(DefaultState, e, cd)

\* the third argument, shouldStartAtEdge, is not declared and not passed on
DisabledState_handleDrawStart(self, e, cd, shouldStartAtEdge) ==
    IF cd.props.disabled THEN Ret(self, cd)
    ELSE DefaultState_handleDrawStart(DefaultState, e, cd, FALSE)

DisabledState_handleDrawMove(self, e, cd) ==
    IF cd.props.disabled THEN Ret(self, cd)
    ELSE DefaultState_handleDrawMove(DefaultState, e, cd)

DisabledState_handleDrawEnd(self, e, cd) ==
    IF cd.props.disabled THEN Ret(self, cd)
    ELSE DefaultState_handleDrawEnd(DefaultState, e, cd)

---------------------------------------------------------------------------
(* Method lookup on the state object the host holds *)

handleMouseWheelOf(s, e, cd) ==
    CASE s.type = "Default" -> DefaultState_handleMouseWheel(s, e, cd)
      [] s.type = "Disabled" -> DisabledState_handleMouseWheel(s, e, cd)
      [] OTHER -> SUPPRESS_SCROLL(s, e, cd)

handleDrawStartOf(s, e, cd, shouldStartAtEdge) ==
    CASE s.type = "Default" -> DefaultState_handleDrawStart(s, e, cd, shouldStartAtEdge)
      [] s.type = "Disabled" -> DisabledState_handleDrawStart(s, e, cd, shouldStartAtEdge)
      [] s.type = "Pan" -> PanState_handleDrawStart(s, e, cd)
      [] s.type = "WaitForPinch" -> WaitForPinchState_handleDrawStart(s, e, cd, shouldStartAtEdge)
      [] s.type = "ScaleOrPan" -> ScaleOrPanState_handleDrawStart(s, e, cd)
      [] s.type = "TouchPan" -> TouchPanState_handleDrawStart(s, e, cd)
      [] s.type = "TouchScale" -> TouchScaleState_handleDrawStart(s, e, cd)
      [] s.type = "Drawing" -> DrawingState_handleDrawStart(s, e, cd, shouldStartAtEdge)

handleDrawMoveOf(s, e, cd) ==
    CASE s.type = "Default" -> DefaultState_handleDrawMove(s, e, cd)
      [] s.type = "Disabled" -> DisabledState_handleDrawMove(s, e, cd)
      [] s.type = "Pan" -> PanState_handleDrawMove(s, e, cd)
      [] s.type = "WaitForPinch" -> WaitForPinchState_handleDrawMove(s, e, cd)
      [] s.type = "ScaleOrPan" -> ScaleOrPanState_handleDrawMove(s, e, cd)
      [] s.type = "TouchPan" -> TouchPanState_handleDrawMove(s, e, cd)
      [] s.type = "TouchScale" -> TouchScaleState_handleDrawMove(s, e, cd)
      [] s.type = "Drawing" -> DrawingState_handleDrawMove(s, e, cd, FALSE)

handleDrawEndOf(s, e, cd) ==
    CASE s.type = "Default" -> DefaultState_handleDrawEnd(s, e, cd)
      [] s.type = "Disabled" -> DisabledState_handleDrawEnd(s, e, cd)
      [] s.type = "Pan" -> PanState_handleDrawEnd(s, e, cd)
      [] s.type = "WaitForPinch" -> WaitForPinchState_handleDrawEnd(s, e, cd)
      [] s.type = "ScaleOrPan" -> ScaleOrPanState_handleDrawEnd(s, e, cd)
      [] s.type = "TouchPan" -> TouchPanState_handleDrawEnd(s, e, cd)
      [] s.type = "TouchScale" -> TouchScaleState_handleDrawEnd(s, e, cd)
      [] s.type = "Drawing" -> DrawingState_handleDrawEnd(s, e, cd)

---------------------------------------------------------------------------
(* The host: CanvasDraw *)

\* this.interactionSM = <the handler's return value>, with the handler's
\* effects on canvasDraw
Store(r) ==
    /\ interactionSM' = r.sm
    /\ view' = r.cd.view
    /\ points' = r.cd.points
    /\ lines' = r.cd.lines
    /\ lazy' = r.cd.lazy
    /\ fills' = r.cd.fills
    /\ UNCHANGED <<props, now, raised>>
    /\ UNCHANGED surfaceVars

\* this.interactionSM.handleX(...) on undefined: a TypeError, nothing stored
Throw ==
    /\ raised' = TRUE
    /\ fills' = <<>>
    /\ UNCHANGED <<interactionSM, props, view, points, lines, lazy, now>>
    /\ UNCHANGED surfaceVars

Entry == [CanvasDraw EXCEPT !.fills = <<>>]

handleWheel(e) ==
    /\ nEvents < MaxEvents
    /\ nEvents' = nEvents + 1
    /\ IF interactionSM.type = "undefined" THEN Throw
       ELSE Store(handleMouseWheelOf(interactionSM, e, Entry))

\* onMouseDown: with the paint-bucket tool the host fills at the rounded
\* document point itself, whatever the state, before it starts the gesture
floodFillOnMouseDown(cd, e) ==
    LET p == viewPointFromEvent(cd.view, e)
    IN  IF cd.props.tool = "FloodFill"
        THEN floodFill(cd, RRound(p.x), RRound(p.y))
        ELSE cd

handleMouseDownOf(s, e, cd) ==
    handleDrawStartOf(s, e, floodFillOnMouseDown(cd, e), FALSE)

\* the canvas element's handlers that start a gesture: onTouchStart is
\* handleDrawStart, onMouseDown is handleMouseDown, and onMouseOver with the
\* button held (props.trueMouseDown) is handleDrawStart(e, true)
StartHandlers == {"onTouchStart", "onMouseDown", "onMouseOver"}

StartEvents(handler) ==
    IF handler = "onTouchStart" THEN TouchStartEvents ELSE MouseEvents(BOOLEAN)

handleDrawStart(handler, e) ==
    /\ nEvents < MaxEvents
    /\ nEvents' = nEvents + 1
    /\ LET cd == IF handler = "onMouseDown" THEN floodFillOnMouseDown(Entry, e) ELSE Entry
       IN  IF interactionSM.type = "undefined"
           THEN \* the host's own fill has run before the dispatch throws
                /\ raised' = TRUE
                /\ fills' = cd.fills
                /\ UNCHANGED <<interactionSM, props, view, points, lines, lazy, now>>
                /\ UNCHANGED surfaceVars
           ELSE Store(handleDrawStartOf(interactionSM, e, cd, handler = "onMouseOver"))

handleDrawMove(e) ==
    /\ nEvents < MaxEvents
    /\ nEvents' = nEvents + 1
    /\ IF interactionSM.type = "undefined" THEN Throw
       ELSE Store(handleDrawMoveOf(interactionSM, e, Entry))

handleDrawEnd(e) ==
    /\ nEvents < MaxEvents
    /\ nEvents' = nEvents + 1
    /\ IF interactionSM.type = "undefined" THEN Throw
       ELSE Store(handleDrawEndOf(interactionSM, e, Entry))

\* The parent re-renders with new props; componentDidUpdate then hands the
\* zoom extents to the coordinate system and resets the view when pan/zoom
\* is off.
componentDidUpdate(newProps) ==
    /\ props' = newProps
    /\ view' = IF ~newProps.enablePanAndZoom
               THEN resetView(setScaleExtents(view, newProps.zoomExtents))
               ELSE setScaleExtents(view, newProps.zoomExtents)
    /\ UNCHANGED <<interactionSM, points, lines, lazy, fills, now, raised, nEvents>>
    /\ UNCHANGED surfaceVars

\* Time passes.  The clock is read only by WaitForPinchState (at its
\* construction and in its handleDrawMove), so only the time that passes
\* while the machine waits can be observed.
\* mutant: a timer gives up the wait when the timeout elapses
Mut_Tick ==
    /\ interactionSM.type = "WaitForPinch"
    /\ now < MaxNow
    /\ now' = now + TickMs
    /\ IF now' - interactionSM.startTimestamp >= PINCH_TIMEOUT_MS
       THEN LET r == WaitForPinchState_issueDeferredPoints(interactionSM, Entry)
            IN  /\ interactionSM' = r.sm
                /\ points' = r.cd.points
                /\ lazy' = r.cd.lazy
                /\ fills' = r.cd.fills
                /\ UNCHANGED <<props, view, lines, raised, nEvents>>
       ELSE UNCHANGED <<interactionSM, props, view, points, lines, lazy, fills, raised, nEvents>>
    /\ UNCHANGED surfaceVars

Tick ==
    /\ interactionSM.type = "WaitForPinch"
    /\ now < MaxNow
    /\ now' = now + TickMs
    /\ UNCHANGED <<interactionSM, props, view, points, lines, lazy, fills, raised, nEvents>>
    /\ UNCHANGED surfaceVars

NoPixels == [width |-> 0, height |-> 0, data |-> <<>>]

PropsSet ==
    [disabled : BOOLEAN, enablePanAndZoom : BOOLEAN, tool : Tools,
     clampLinesToDocument : {FALSE}, brushColor : {"#db2727"}, brushRadius : {10},
     zoomExtents : {zoomExtents}]

Init ==
    /\ interactionSM = DefaultState
    /\ props \in PropsSet
    /\ view = IdentityView
    /\ points = <<>>
    /\ lines = <<>>
    /\ lazy = LazyInit
    /\ fills = <<>>
    /\ now = 0
    /\ raised = FALSE
    /\ nEvents = 0
    \* this specification carries no pixels: a fill is a recorded call
    /\ drawing = NoPixels
    /\ undoImageQueue = <<>>
    /\ hung = FALSE
    /\ lastFill = <<>>

Next ==
    \/ \E e \in WheelEvents : handleWheel(e)
    \/ \E handler \in StartHandlers : \E e \in StartEvents(handler) :
           handleDrawStart(handler, e)
    \/ \E e \in DrawMoveEvents : handleDrawMove(e)
    \/ \E e \in DrawEndEvents : handleDrawEnd(e)
    \/ \E p \in PropsSet : componentDidUpdate(p)
    \/ Tick

Spec == Init /\ [][Next]_vars

----------------------------------------------------------------------------
(* The viewport under its whole interface: wheel zoom, two-touch gestures, *)
(* the host's resetView and setView, and updates that replace the zoom     *)
(* extents.  The initial scale is 1, so the extents the parent passes are  *)
(* taken to hold 1.                                                        *)

ViewExtents ==
    { zoomExtents,
      [min |-> <<1, 2>>, max |-> <<2, 1>>],
      [min |-> <<1, 1>>, max |-> <<1, 1>>] }

ViewPropsSet ==
    [disabled : {FALSE}, enablePanAndZoom : BOOLEAN, tool : {"Pencil"},
     clampLinesToDocument : {FALSE}, brushColor : {"#db2727"}, brushRadius : {10},
     zoomExtents : ViewExtents]

\* the views the host asks for: scales below, inside and above the extents
ViewRequests ==
    [x : {RInt(0), RInt(6)}, y : {RInt(0)}, scale : {<<1, 10>>, <<2, 1>>, <<5, 1>>}]

ViewInit ==
    /\ interactionSM = DefaultState
    /\ props \in ViewPropsSet
    /\ view = IdentityView
    /\ points = <<>>
    /\ lines = <<>>
    /\ lazy = LazyInit
    /\ fills = <<>>
    /\ now = 0
    /\ raised = FALSE
    /\ nEvents = 0
    /\ drawing = NoPixels
    /\ undoImageQueue = <<>>
    /\ hung = FALSE
    /\ lastFill = <<>>

\* CanvasDraw.resetView(), called by the host application; the calls are
\* counted with the input events
resetViewCall ==
    /\ nEvents < MaxEvents
    /\ nEvents' = nEvents + 1
    /\ view' = resetView(view)
    /\ UNCHANGED <<interactionSM, props, points, lines, lazy, fills, now, raised>>
    /\ UNCHANGED surfaceVars

\* CanvasDraw.setView(view), called by the host application
setViewCall(nv) ==
    /\ nEvents < MaxEvents
    /\ nEvents' = nEvents + 1
    /\ view' = setView(view, nv)
    /\ UNCHANGED <<interactionSM, props, points, lines, lazy, fills, now, raised>>
    /\ UNCHANGED surfaceVars

ViewNext ==
    \/ \E e \in WheelEvents : handleWheel(e)
    \/ \E e \in TwoTouchEvents({FALSE}) : handleDrawStart("onTouchStart", e)
    \/ \E e \in TwoTouchEvents({FALSE}) : handleDrawMove(e)
    \/ resetViewCall
    \/ \E nv \in ViewRequests : setViewCall(nv)
    \/ \E p \in ViewPropsSet : componentDidUpdate(p)

ViewSpec == ViewInit /\ [][ViewNext]_vars

---------------------------------------------------------------------------
(* Vocabulary of the claims *)

\* the document-space point of a client point under view v
DocOf(v, p) == clientPointToViewPoint(v, RPt(p))

Manhattan(p, q) == Abs(p.clientX - q.clientX) + Abs(p.clientY - q.clientY)

\* draw-start events as the host passes them on: (event, shouldStartAtEdge)
StartCalls ==
    {<<e, FALSE>> : e \in DrawStartEvents} \cup {<<e, TRUE>> : e \in MouseEvents(BOOLEAN)}

FewTouchMoves == {e \in DrawMoveEvents : Len(e.touches) < 2}
TwoTouchMoves == {e \in DrawMoveEvents : Len(e.touches) >= 2}
OneTouchMoves == {e \in DrawMoveEvents : Len(e.touches) = 1}

---------------------------------------------------------------------------
(* C1: after any sequence of wheel, draw-start, draw-move and draw-end     *)
(* events the host's interactionSM is one of the eight states, never       *)
(* undefined, and no dispatch raises an error.                             *)
C1_MachineIsAlwaysAState ==
    interactionSM.type \in StateTypes /\ ~raised

(* C2: a wheel event received in Pan, WaitForPinch, ScaleOrPan, TouchPan,  *)
(* TouchScale or Drawing returns the same state object, data included, and *)
(* leaves the view unchanged.                                              *)
C2_WheelSuppressedInGesture ==
    [][\A e \in WheelEvents :
          (interactionSM.type \in GestureTypes /\ handleWheel(e))
              => (interactionSM' = interactionSM /\ view' = view)]_vars

---------------------------------------------------------------------------
\* the stroke a replay or a live delivery of the client points pts appends
\* with a stroke tool: the first brush position twice, then one per point
ExpectedStroke(v, pts) ==
    IF pts = <<>> THEN <<>>
    ELSE <<DocOf(v, pts[1])>> \o [i \in 1..Len(pts) |-> DocOf(v, pts[i])]

ExpectedFills(v, pts) ==
    [i \in 1..Len(pts) |-> <<RRound(DocOf(v, pts[i]).x), RRound(DocOf(v, pts[i]).y)>>]

(* C3: in WaitForPinch a single-touch draw-move keeps the machine in       *)
(* WaitForPinch iff fewer than 250 ms have elapsed since the state was     *)
(* created and the Manhattan distance from the first buffered point is     *)
(* below 10; otherwise the machine is in Drawing and every buffered point, *)
(* the current one included, has been replayed in arrival order.           *)
C3_SlopAndTimeout ==
    interactionSM.type = "WaitForPinch" =>
        \A e \in OneTouchMoves :
            LET r == handleDrawMoveOf(interactionSM, e, Entry)
                p == e.touches[1]
                buffered == Append(interactionSM.deferredPoints, p)
                stay == /\ now - interactionSM.startTimestamp < 250
                        /\ Manhattan(p, interactionSM.deferredPoints[1]) < 10
            IN  /\ (r.sm.type = "WaitForPinch") <=> stay
                /\ stay => r.sm.deferredPoints = buffered /\ r.cd = Entry
                /\ ~stay =>
                      /\ r.sm.type = "Drawing"
                      /\ r.cd.view = view
                      /\ props.tool = "Pencil" =>
                            r.cd.points = points \o ExpectedStroke(view, buffered)
                      /\ props.tool = "FloodFill" =>
                            r.cd.fills = ExpectedFills(view, buffered)

\* still waiting after a move that left the first point
C3_Witness ==
    /\ interactionSM.type = "WaitForPinch"
    /\ Len(interactionSM.deferredPoints) >= 2
    /\ interactionSM.deferredPoints[2] # interactionSM.deferredPoints[1]

\* the points pts delivered live, one touch event per point, from index i on
RECURSIVE LiveDelivery(_, _, _, _)
LiveDelivery(pts, i, s, cd) ==
    IF i > Len(pts) THEN Ret(s, cd)
    ELSE LET e == TouchEvent(FALSE, <<pts[i]>>)
             r == IF i = 1 THEN handleDrawStartOf(s, e, cd, FALSE)
                  ELSE handleDrawMoveOf(s, e, cd)
         IN  LiveDelivery(pts, i + 1, r.sm, r.cd)

(* C4: the state, the stroke and the filter after WaitForPinch replays its *)
(* buffered points equal those after delivering the first point as a       *)
(* draw-start and the others as draw-moves to a fresh Drawing state.       *)
C4_ReplayEquivalence ==
    interactionSM.type = "WaitForPinch" =>
        /\ WaitForPinchState_issueDeferredPoints(interactionSM, Entry)
             = LiveDelivery(interactionSM.deferredPoints, 1, DrawingState, Entry)
        /\ \A e \in OneTouchMoves :
              LET r == handleDrawMoveOf(interactionSM, e, Entry)
                  buffered == Append(interactionSM.deferredPoints, e.touches[1])
              IN  r.sm.type # "WaitForPinch" =>
                      r = LiveDelivery(buffered, 1, DrawingState, Entry)

\* a replay of two or more points has run: only a replay fills at two
\* different pixels in one event and ends in Drawing
C4_Witness ==
    /\ interactionSM.type = "Drawing"
    /\ Len(fills) >= 2
    /\ fills[1] # fills[2]

(* C5: a draw-start in Default yields Disabled if the disabled flag is     *)
(* set; otherwise Pan if ctrl is held and pan/zoom is enabled, whatever    *)
(* the touches; otherwise what WaitForPinch's draw-start logic yields.     *)
C5_DefaultDrawStart ==
    interactionSM.type = "Default" =>
        \A c \in StartCalls :
            LET e == c[1]
                r == handleDrawStartOf(interactionSM, e, Entry, c[2])
            IN  IF props.disabled THEN r = Ret(DisabledState, Entry)
                ELSE IF e.ctrlKey /\ props.enablePanAndZoom
                THEN r.sm.type = "Pan" /\ r.cd = Entry
                ELSE r = WaitForPinchState_handleDrawStart(WaitForPinchState, e, Entry, c[2])

\* Pan entered by a two-touch draw-start: only a touch pair starts at (12, 0)
C5_Witness ==
    /\ interactionSM.type = "Pan"
    /\ interactionSM.dragStart = <<Pt(12, 0)>>

(* C6: a draw-start without the modifier, passed by Default to             *)
(* WaitForPinch: no touches or pan/zoom off -> Drawing at once, the point  *)
(* handled as a live draw-start and nothing buffered; pan/zoom on and two  *)
(* or more touches -> ScaleOrPan; pan/zoom on and one touch ->             *)
(* WaitForPinch with that point buffered and no stroke point appended.     *)
C6_WaitForPinchDrawStart ==
    (interactionSM.type = "Default" /\ ~props.disabled) =>
        \A c \in StartCalls :
            LET e == c[1]
                r == handleDrawStartOf(interactionSM, e, Entry, c[2])
                d == DocOf(view, clientPointFromEvent(e))
            IN  ~(e.ctrlKey /\ props.enablePanAndZoom) =>
                    IF Len(e.touches) = 0 \/ ~props.enablePanAndZoom
                    THEN /\ r.sm.type = "Drawing"
                         /\ r.sm.deferredPoints = <<>>
                         /\ r = DrawingState_handleDrawStart(DrawingState, e, Entry, c[2])
                         /\ (props.tool = "Pencil" /\ ~c[2]) =>
                                r.cd.points = points \o <<d, d>>
                    ELSE IF Len(e.touches) >= 2
                    THEN r.sm.type = "ScaleOrPan"
                    ELSE /\ r.sm.type = "WaitForPinch"
                         /\ r.sm.deferredPoints = <<e.touches[1]>>
                         /\ r.cd = Entry

C6_Witness ==
    /\ interactionSM.type = "WaitForPinch"
    /\ Len(interactionSM.deferredPoints) = 1
    /\ points = <<>>
    /\ nEvents = 1

---------------------------------------------------------------------------
\* the inter-touch distance and the centroid of a two-touch event
TouchDistance(e) ==
    Sqrt((e.touches[2].clientX - e.touches[1].clientX) * (e.touches[2].clientX - e.touches[1].clientX)
         + (e.touches[2].clientY - e.touches[1].clientY) * (e.touches[2].clientY - e.touches[1].clientY))

TouchCentroid(e) ==
    [x |-> Rat(e.touches[1].clientX + e.touches[2].clientX, 2),
     y |-> Rat(e.touches[1].clientY + e.touches[2].clientY, 2)]

(* C7: in ScaleOrPan a draw-move with two or more touches goes to          *)
(* TouchScale if the inter-touch distance changed by 10 or more from the   *)
(* baseline; otherwise to TouchPan if the centroid moved by 10 or more     *)
(* (Manhattan); otherwise the machine stays in ScaleOrPan with the view    *)
(* unchanged.  Scaling has priority.                                       *)
C7_ScaleOrPanClassifies ==
    interactionSM.type = "ScaleOrPan" =>
        \A e \in TwoTouchMoves :
            LET r == handleDrawMoveOf(interactionSM, e, Entry)
                base == interactionSM.start[1]
                dd == Abs(TouchDistance(e) - base.distance)
                c == TouchCentroid(e)
                dc == RAdd(RAbs(RSub(c.x, base.centroid.x)), RAbs(RSub(c.y, base.centroid.y)))
            IN  IF dd >= 10 THEN r.sm.type = "TouchScale"
                ELSE IF RLe(RInt(10), dc) THEN r.sm.type = "TouchPan"
                ELSE r.sm = interactionSM /\ r.cd = Entry

\* TouchScale entered from the baseline (0,0),(10,0) by a move that reached
\* both thresholds: the scale went from 1 to the maximum
C7_Witness ==
    /\ interactionSM.type = "TouchScale"
    /\ interactionSM.start[1].distance = 10
    /\ interactionSM.start[1].centroid.x = <<5, 1>>
    /\ interactionSM.scaleStart = <<RInt(1)>>
    /\ view.scale = RInt(3)

\* the scale TouchScale aims at
TargetScale(s, e) == RMul(s.scaleStart[1], Rat(TouchDistance(e), s.start[1].distance))

\* the move of a ScaleOrPan or TouchScale state that scales
ScalingMove(e) ==
    \/ interactionSM.type = "TouchScale"
    \/ /\ interactionSM.type = "ScaleOrPan"
       /\ Abs(TouchDistance(e) - interactionSM.start[1].distance) >= 10

(* C8 as claimed: after every scaling draw-move with two or more touches   *)
(* the view scale equals baselineScale * (currentDistance /                *)
(* baselineDistance).                                                      *)
C8_ScaleIsBaselineTimesRatio ==
    interactionSM.type \in {"ScaleOrPan", "TouchScale"} =>
        \A e \in TwoTouchMoves :
            ScalingMove(e) =>
                handleDrawMoveOf(interactionSM, e, Entry).cd.view.scale
                    = TargetScale(interactionSM, e)

(* C8 amended: after every scaling draw-move with two or more touches the  *)
(* machine is in TouchScale, the view scale equals baselineScale *         *)
(* (currentDistance / baselineDistance) clamped to [minScale, maxScale],   *)
(* and the document point under the two-touch centroid is the same before  *)
(* and after.                                                              *)
C8_ScaleIsClampedBaselineTimesRatio ==
    interactionSM.type \in {"ScaleOrPan", "TouchScale"} =>
        \A e \in TwoTouchMoves :
            ScalingMove(e) =>
                LET r == handleDrawMoveOf(interactionSM, e, Entry)
                    t == TargetScale(interactionSM, e)
                    c == TouchCentroid(e)
                IN  /\ r.sm.type = "TouchScale"
                    /\ r.cd.view.scale
                         = (IF RLt(t, <<33, 100>>) THEN <<33, 100>>
                            ELSE IF RLt(RInt(3), t) THEN RInt(3) ELSE t)
                    /\ clientPointToViewPoint(r.cd.view, c) = clientPointToViewPoint(view, c)

\* Scenario C on a zoomed view: baseline scale 1/2, touches from 10 to 30
\* apart, scale 3/2
C8_Witness ==
    /\ interactionSM.type = "TouchScale"
    /\ interactionSM.scaleStart = <<Rat(1, 2)>>
    /\ interactionSM.start[1].distance = 10
    /\ view.scale = Rat(3, 2)

(* C9: a draw-start or draw-move with fewer than two touches in ScaleOrPan *)
(* and a draw-move with fewer than two touches in TouchPan or TouchScale   *)
(* yield Default, view and stroke unchanged; and a draw-move in Default or *)
(* Disabled appends no stroke point and starts no gesture.                 *)
C9_DroppedPinchFallsBack ==
    /\ interactionSM.type = "ScaleOrPan" =>
          \A c \in StartCalls :
              Len(c[1].touches) < 2 =>
                  LET r == handleDrawStartOf(interactionSM, c[1], Entry, c[2])
                  IN  r = Ret(DefaultState, Entry)
    /\ interactionSM.type \in {"ScaleOrPan", "TouchPan", "TouchScale"} =>
          \A e \in FewTouchMoves :
              handleDrawMoveOf(interactionSM, e, Entry) = Ret(DefaultState, Entry)
    /\ interactionSM.type \in {"Default", "Disabled"} =>
          \A e \in FewTouchMoves :
              LET r == handleDrawMoveOf(interactionSM, e, Entry)
              IN  /\ r.sm.type \in {"Default", "Disabled"}
                  /\ r.cd.points = points
                  /\ r.cd.lines = lines
                  /\ r.cd.view = view

\* back in Default after a pinch that had scaled the view: three events
\* (two-touch start, scaling move, dropped touch) and a scale only a pinch
\* from 30 apart to 10 apart produces
C9_Witness ==
    /\ interactionSM.type = "Default"
    /\ nEvents = 3
    /\ view.scale = Rat(1, 3)
    /\ points = <<>>

(* C10: Disabled reads the live flag: while it is set every event returns  *)
(* Disabled and changes nothing; once it is cleared the next event is      *)
(* handled exactly as Default handles it.                                  *)
C10_DisabledDelegatesToDefault ==
    interactionSM.type = "Disabled" =>
        /\ \A e \in WheelEvents :
              handleMouseWheelOf(interactionSM, e, Entry)
                = IF props.disabled THEN Ret(interactionSM, Entry)
                  ELSE handleMouseWheelOf(DefaultState, e, Entry)
        /\ \A c \in StartCalls :
              handleDrawStartOf(interactionSM, c[1], Entry, c[2])
                = IF props.disabled THEN Ret(interactionSM, Entry)
                  ELSE handleDrawStartOf(DefaultState, c[1], Entry, c[2])
        /\ \A e \in DrawMoveEvents :
              handleDrawMoveOf(interactionSM, e, Entry)
                = IF props.disabled THEN Ret(interactionSM, Entry)
                  ELSE handleDrawMoveOf(DefaultState, e, Entry)
        /\ \A e \in DrawEndEvents :
              handleDrawEndOf(interactionSM, e, Entry)
                = IF props.disabled THEN Ret(interactionSM, Entry)
                  ELSE handleDrawEndOf(DefaultState, e, Entry)

---------------------------------------------------------------------------
\* what the host's input handlers do with an event, as (state, canvasDraw)
HostOutcomes ==
    {handleMouseWheelOf(interactionSM, e, Entry) : e \in WheelEvents}
    \cup {handleMouseDownOf(interactionSM, e, Entry) : e \in MouseEvents(BOOLEAN)}
    \cup {handleDrawStartOf(interactionSM, e, Entry, TRUE) : e \in MouseEvents(BOOLEAN)}
    \cup {handleDrawStartOf(interactionSM, e, Entry, FALSE) : e \in TouchStartEvents}
    \cup {handleDrawMoveOf(interactionSM, e, Entry) : e \in DrawMoveEvents}
    \cup {handleDrawEndOf(interactionSM, e, Entry) : e \in DrawEndEvents}

(* C11: while the disabled flag is set and the machine is in Default or    *)
(* Disabled, no input event the host handles (mouse down, up, move, out,   *)
(* over, touch start, move, end, wheel) invokes the flood fill, touches    *)
(* the in-progress stroke, the committed history or the view.              *)
C11_DisabledSurfaceIgnoresInput ==
    (props.disabled /\ interactionSM.type \in {"Default", "Disabled"}) =>
        \A r \in HostOutcomes :
            /\ r.cd.fills = <<>>
            /\ r.cd.points = points
            /\ r.cd.lines = lines
            /\ r.cd.view = view

---------------------------------------------------------------------------
(* C12: a draw-end in Pan, WaitForPinch, ScaleOrPan, TouchPan, TouchScale  *)
(* or Drawing yields Default; a draw-end in Default or Disabled yields     *)
(* Disabled when the flag is set and Default otherwise.  No state keeps    *)
(* the machine after the gesture's draw-end.                               *)
C12_DrawEndReturnsToDefault ==
    interactionSM.type \in StateTypes =>
        \A e \in DrawEndEvents :
            LET r == handleDrawEndOf(interactionSM, e, Entry)
            IN  IF interactionSM.type \in GestureTypes THEN r.sm = DefaultState
                ELSE IF props.disabled THEN r.sm = DisabledState
                ELSE r.sm = DefaultState

\* back in Default after a pan gesture that moved the view and left the scale
C12_Witness ==
    /\ interactionSM.type = "Default"
    /\ view.scale = RInt(1)
    /\ view.x = RInt(6)
    /\ view.y = RInt(6)
    /\ nEvents = 3

\* the stroke point of an event under the current view
StrokePoint(e) == DocOf(view, clientPointFromEvent(e))

ScenarioD_Start(e) == handleMouseDownOf(interactionSM, e, Entry)
ScenarioD_End(e) ==
    LET r1 == ScenarioD_Start(e)
    IN  handleDrawEndOf(r1.sm, e, [r1.cd EXCEPT !.fills = <<>>])

ScenarioD_Applies ==
    /\ interactionSM.type = "Default"
    /\ ~props.disabled
    /\ ~props.enablePanAndZoom

C15_LiftWhileWaitingDrawsBuffer ==
    interactionSM.type = "WaitForPinch" =>
        \A e \in DrawEndEvents :
            LET r == handleDrawEndOf(interactionSM, e, Entry)
                live == LiveDelivery(interactionSM.deferredPoints, 1, DrawingState, Entry)
                stroke == points \o ExpectedStroke(view, interactionSM.deferredPoints)
                                 \o <<StrokePoint(e)>>
            IN  /\ r.sm = DefaultState
                /\ r = handleDrawEndOf(live.sm, e, live.cd)
                /\ props.tool = "Pencil" =>
                      /\ r.cd.points = <<>>
                      /\ r.cd.lines = Append(lines, [points |-> stroke,
                                                     brushColor |-> props.brushColor,
                                                     brushRadius |-> props.brushRadius])
                /\ props.tool = "FloodFill" =>
                      /\ r.cd.lines = lines
                      /\ r.cd.fills = ExpectedFills(view, interactionSM.deferredPoints)
                                        \o <<<<RRound(StrokePoint(e).x), RRound(StrokePoint(e).y)>>>>

\* a touch at (0,0), a move to (6,0) inside the slop, a lift at (6,6): the
\* stroke holds the two buffered points and the end point
C15_Witness ==
    /\ interactionSM.type = "Default"
    /\ nEvents = 3
    /\ Len(lines) = 1
    /\ lines[1].points = <<RPt(Pt(0, 0)), RPt(Pt(0, 0)), RPt(Pt(6, 0)), RPt(Pt(6, 6))>>

---------------------------------------------------------------------------
\* the pixel the flood fill is invoked at for an event
FillPixel(e) == <<RRound(StrokePoint(e).x), RRound(StrokePoint(e).y)>>

\* the in-progress stroke of an outcome, committed or not
StrokeAfter(r) ==
    IF Len(r.cd.lines) > Len(lines) THEN r.cd.lines[Len(r.cd.lines)].points
    ELSE r.cd.points

\* what the claim asks of the outcome r of event e in Drawing
FillsOrDraws(e, r) ==
    /\ props.tool = "FloodFill" =>
          /\ r.cd.fills = <<FillPixel(e)>>
          /\ StrokeAfter(r) = points
    /\ props.tool = "Pencil" =>
          /\ r.cd.fills = <<>>
          /\ Len(StrokeAfter(r)) > Len(points)
          /\ SubSeq(StrokeAfter(r), 1, Len(points)) = points

(* C16: in Drawing with the paint-bucket tool every draw-start, draw-move  *)
(* and draw-end invokes the flood fill once, at the pixel obtained by      *)
(* rounding the event's document point, and appends no point to the        *)
(* stroke; with a stroke tool the event appends to the stroke and does not *)
(* invoke the flood fill.                                                  *)
C16_PaintBucketFillsStrokeToolDraws ==
    interactionSM.type = "Drawing" =>
        /\ \A c \in StartCalls :
               FillsOrDraws(c[1], handleDrawStartOf(interactionSM, c[1], Entry, c[2]))
        /\ \A e \in DrawMoveEvents :
               FillsOrDraws(e, handleDrawMoveOf(interactionSM, e, Entry))
        /\ \A e \in DrawEndEvents :
               FillsOrDraws(e, handleDrawEndOf(interactionSM, e, Entry))

\* Drawing with the paint bucket after a fill at the pixel of (6,6) seen
\* through a view zoomed out to 1/2 around (6,6): no stroke point
C16_Witness ==
    /\ interactionSM.type = "Drawing"
    /\ props.tool = "FloodFill"
    /\ view.scale = Rat(1, 2)
    /\ fills # <<>>
    /\ fills[Len(fills)] = <<6, 6>>
    /\ points = <<>>

(* C17: no single input event invokes both the flood fill and the          *)
(* stroke-compositing step of saveLine (which runs exactly when a stroke   *)
(* is appended to the history), whatever the events and the changes of the *)
(* tool between them.                                                      *)
C17_OneBufferMutatorPerEvent ==
    interactionSM.type \in StateTypes =>
        \A r \in HostOutcomes :
            ~(r.cd.fills # <<>> /\ Len(r.cd.lines) > Len(lines))

---------------------------------------------------------------------------
(* The drawing surface: pixels, the host's flood fill (CanvasDraw.floodFill) *)
(* and the span fill of the FloodFill class.  A colour is <<r, g, b, a>>;    *)
(* the host packs the four bytes into one 32-bit number, and two packed      *)
(* numbers are equal iff the four bytes are.                                 *)

White == <<255, 255, 255, 255>>
Black == <<0, 0, 0, 255>>
Red == <<255, 0, 0, 255>>
OffWhite == <<250, 250, 250, 255>>

\* getPixel's "impossible color" -1
ImpossibleColor == <<-1>>

UndoLimit == 6

\* pixel (x, y) is data[y * width + x]; sequences count from 1
PixelIndex(pixelData, x, y) == y * pixelData.width + x

InRange(pixelData, x, y) ==
    x >= 0 /\ y >= 0 /\ x < pixelData.width /\ y < pixelData.height

getPixel(pixelData, x, y) ==
    IF x < 0 \/ y < 0 \/ x >= pixelData.width \/ y >= pixelData.height
    THEN ImpossibleColor
    ELSE pixelData.data[PixelIndex(pixelData, x, y) + 1]

\* mutant: the pixel is not written
Mut_setData(pixelData, i, v) == pixelData

\* pixelData.data[i] = v on a Uint32Array: a write outside the array is ignored
setData(pixelData, i, v) ==
    IF i >= 0 /\ i < Len(pixelData.data)
    THEN [pixelData EXCEPT !.data[i + 1] = v]
    ELSE pixelData

\* mutant: a full queue drops its oldest snapshot
Mut_pushToUndoQueue(queue, imageData) ==
    LET q == IF Len(queue) >= UndoLimit THEN SubSeq(queue, 2, Len(queue)) ELSE queue
    IN  Append(q, imageData)

pushToUndoQueue(queue, imageData) ==
    LET q == IF Len(queue) >= UndoLimit THEN SubSeq(queue, 1, Len(queue) - 1) ELSE queue
    IN  Append(q, imageData)

\* CanvasDraw.undo on the queue and the pixels of ctx.drawing: the newest
\* snapshot is popped and put back by loadSaveData (loaded), or nothing
\* happens on an empty queue
undo(queue, canvas) ==
    IF Len(queue) > 0
    THEN [undoImageQueue |-> SubSeq(queue, 1, Len(queue) - 1),
          drawing |-> queue[Len(queue)], loaded |-> TRUE]
    ELSE [undoImageQueue |-> queue, drawing |-> canvas, loaded |-> FALSE]

\* A pixel inside the buffer matches at most once (it is rewritten with a
\* colour other than targetColor) and each match pushes four pixels, so a
\* loop that ends makes at most 4 * width * height + 1 pops.  A loop that
\* makes more has matched a pixel outside the buffer, which reads -1
\* whatever is written, and pushes at least three more such pixels per pop:
\* it never ends.
LoopBound(pixelData) == 4 * pixelData.width * pixelData.height + 1

\* mutant: the fill also spreads to the four diagonal neighbours
RECURSIVE Mut_floodFillLoop(_, _, _, _, _, _)
Mut_floodFillLoop(pixelData, pixelsToCheck, targetColor, fillColor, pops, written) ==
    IF pixelsToCheck = <<>>
    THEN [ended |-> TRUE, pixelData |-> pixelData, written |-> written]
    ELSE IF pops >= 2 * LoopBound(pixelData)
    THEN [ended |-> FALSE, pixelData |-> pixelData, written |-> written]
    ELSE LET n == Len(pixelsToCheck)
             x == pixelsToCheck[n][1]
             y == pixelsToCheck[n][2]
             rest == SubSeq(pixelsToCheck, 1, n - 1)
         IN  IF getPixel(pixelData, x, y) = targetColor
             THEN Mut_floodFillLoop(setData(pixelData, PixelIndex(pixelData, x, y), fillColor),
                                rest \o << <<x + 1, y>>, <<x - 1, y>>, <<x, y + 1>>,
                                           <<x, y - 1>>, <<x + 1, y + 1>>, <<x - 1, y - 1>>,
                                           <<x + 1, y - 1>>, <<x - 1, y + 1>> >>,
                                targetColor, fillColor, pops + 1,
                                Append(written, <<x, y>>))
             ELSE Mut_floodFillLoop(pixelData, rest, targetColor, fillColor, pops + 1,
                                    written)

\* written: the pixels assigned so far, in order
RECURSIVE floodFillLoop(_, _, _, _, _, _)
floodFillLoop(pixelData, pixelsToCheck, targetColor, fillColor, pops, written) ==
    IF pixelsToCheck = <<>>
    THEN [ended |-> TRUE, pixelData |-> pixelData, written |-> written]
    ELSE IF pops >= LoopBound(pixelData)
    THEN [ended |-> FALSE, pixelData |-> pixelData, written |-> written]
    ELSE LET n == Len(pixelsToCheck)
             x == pixelsToCheck[n][1]
             y == pixelsToCheck[n][2]
             rest == SubSeq(pixelsToCheck, 1, n - 1)
         IN  IF getPixel(pixelData, x, y) = targetColor
             THEN floodFillLoop(setData(pixelData, PixelIndex(pixelData, x, y), fillColor),
                                rest \o << <<x + 1, y>>, <<x - 1, y>>, <<x, y + 1>>,
                                           <<x, y - 1>> >>,
                                targetColor, fillColor, pops + 1,
                                Append(written, <<x, y>>))
             ELSE floodFillLoop(pixelData, rest, targetColor, fillColor, pops + 1, written)

\* mutant: the fill runs even when the seed already has the fill colour
Mut_floodFillPixels(canvas, queue, x, y, fillColor) ==
    LET pixelData == canvas
        targetColor == getPixel(pixelData, x, y)
        r == floodFillLoop(pixelData, << <<x, y>> >>, targetColor, fillColor, 0, <<>>)
    IN  IF r.ended
        THEN [returned |-> TRUE, drawing |-> r.pixelData,
              undoImageQueue |-> pushToUndoQueue(queue, canvas), worked |-> TRUE,
              written |-> r.written]
        ELSE [returned |-> FALSE, drawing |-> canvas,
              undoImageQueue |-> queue, worked |-> TRUE, written |-> r.written]

\* CanvasDraw.floodFill on the pixels of ctx.drawing.  The snapshot for undo
\* is read from the canvas before putImageData writes the result back.
floodFillPixels(canvas, queue, x, y, fillColor) ==
    LET pixelData == canvas
        targetColor == getPixel(pixelData, x, y)
    IN  IF targetColor # fillColor
        THEN LET r == floodFillLoop(pixelData, << <<x, y>> >>, targetColor, fillColor, 0, <<>>)
             IN  IF r.ended
                 THEN [returned |-> TRUE, drawing |-> r.pixelData,
                       undoImageQueue |-> pushToUndoQueue(queue, canvas), worked |-> TRUE,
                       written |-> r.written]
                 ELSE [returned |-> FALSE, drawing |-> canvas,
                       undoImageQueue |-> queue, worked |-> TRUE, written |-> r.written]
        ELSE [returned |-> TRUE, drawing |-> canvas, undoImageQueue |-> queue,
              worked |-> FALSE, written |-> <<>>]

---------------------------------------------------------------------------
(* class FloodFill (FloodFill.js).  Its helpers isSameColor, getColorAtPixel *)
(* and setColorAtPixel come from FloodFillUtils, which is not part of the    *)
(* sources at hand; they follow the specification's words: colours match     *)
(* when every channel differs by at most the tolerance, and a pixel outside  *)
(* the buffer cannot be read.                                                *)

isSameColor(a, b, tolerance) ==
    /\ Len(a) = Len(b)
    /\ ~ \E i \in 1..Len(a) : Abs(a[i] - b[i]) > tolerance

\* the colour of no pixel: reading outside the buffer is refused
InvalidPixel == <<>>

getColorAtPixel(imageData, x, y) ==
    IF InRange(imageData, x, y)
    THEN imageData.data[PixelIndex(imageData, x, y) + 1]
    ELSE InvalidPixel

setColorAtPixel(imageData, color, x, y) ==
    [imageData EXCEPT !.data[PixelIndex(imageData, x, y) + 1] = color]

\* null
NoPixel == <<>>

\* A FloodFill object: its fields, with a record of every pixel it painted,
\* every pixel it read, every line it queued and every span it found, in
\* order.
NewFloodFill(imageData) ==
    [imageData |-> imageData, _tolerance |-> 0, _queue |-> <<>>,
     _replacedColor |-> InvalidPixel, _newColor |-> InvalidPixel,
     painted |-> <<>>, read |-> <<>>, queued |-> <<>>, spans |-> <<>>]

addToQueue(ff, line) ==
    [ff EXCEPT !._queue = Append(@, line), !.queued = Append(@, line)]

\* mutant: a pixel that already has the new colour is a target again
Mut_isValidTarget(ff, pixel) ==
    IF pixel = NoPixel THEN FALSE
    ELSE \/ isSameColor(ff._replacedColor,
                        getColorAtPixel(ff.imageData, pixel[1], pixel[2]), ff._tolerance)
         \/ getColorAtPixel(ff.imageData, pixel[1], pixel[2]) = ff._newColor

isValidTarget(ff, pixel) ==
    IF pixel = NoPixel THEN FALSE
    ELSE isSameColor(ff._replacedColor,
                     getColorAtPixel(ff.imageData, pixel[1], pixel[2]), ff._tolerance)

\* the object after isValidTarget(pixel) has read the pixel
afterRead(ff, pixel) ==
    IF pixel = NoPixel THEN ff ELSE [ff EXCEPT !.read = Append(@, pixel)]

setPixelColor(ff, color, pixel) ==
    [ff EXCEPT !.imageData = setColorAtPixel(@, color, pixel[1], pixel[2]),
               !.painted = Append(@, pixel)]

\* mutant: the neighbour is answered without the test on its column
Mut_getPixelNeighbour(ff, direction, x, y) ==
    IF direction = "right" THEN <<x + 1, y>> ELSE <<x - 1, y>>

getPixelNeighbour(ff, direction, x, y) ==
    LET coords == IF direction = "right" THEN <<x + 1, y>> ELSE <<x - 1, y>>
    IN  IF coords[1] >= 0 /\ coords[1] < ff.imageData.width THEN coords ELSE NoPixel

\* one of the two while loops of fillLineAt: extends from column x in the
\* given direction and answers the last column painted
RECURSIVE growLine(_, _, _, _)
growLine(ff, direction, x, y) ==
    LET px == getPixelNeighbour(ff, direction, x, y)
    IN  IF px # NoPixel /\ isValidTarget(ff, px)
        THEN growLine(setPixelColor(afterRead(ff, px), ff._newColor, px), direction, px[1], y)
        ELSE [ff |-> afterRead(ff, px), x |-> x]

\* mutant: the line is extended to the right only
Mut_fillLineAt(ff, x, y) ==
    IF ~ isValidTarget(ff, <<x, y>>)
    THEN [ff |-> afterRead(ff, <<x, y>>), line |-> <<-1, -1>>]
    ELSE LET f0 == setPixelColor(afterRead(ff, <<x, y>>), ff._newColor, <<x, y>>)
             r == growLine(f0, "right", x, y)
         IN  [ff |-> r.ff, line |-> <<x, r.x>>]

fillLineAt(ff, x, y) ==
    IF ~ isValidTarget(ff, <<x, y>>)
    THEN [ff |-> afterRead(ff, <<x, y>>), line |-> <<-1, -1>>]
    ELSE LET f0 == setPixelColor(afterRead(ff, <<x, y>>), ff._newColor, <<x, y>>)
             l == growLine(f0, "left", x, y)
             r == growLine(l.ff, "right", x, y)
         IN  [ff |-> r.ff, line |-> <<l.x, r.x>>]

\* mutant: both neighbouring rows are queued whatever the parent row
Mut_queueNeighbours(ff, lineStart, lineEnd, start, end, y, parentY) ==
    LET f1 == IF y > 0 THEN addToQueue(ff, <<lineStart, lineEnd, y - 1, y>>) ELSE ff
    IN  IF y + 1 < ff.imageData.height
        THEN addToQueue(f1, <<lineStart, lineEnd, y + 1, y>>) ELSE f1

\* what fillQueue adds to the queue for a line painted while working on the
\* queue entry [start, end, y, parentY]
queueNeighbours(ff, lineStart, lineEnd, start, end, y, parentY) ==
    IF lineStart >= start /\ lineEnd <= end /\ parentY # -1
    THEN LET f1 == IF parentY < y /\ y + 1 < ff.imageData.height
                   THEN addToQueue(ff, <<lineStart, lineEnd, y + 1, y>>) ELSE ff
         IN  IF parentY > y /\ y > 0
             THEN addToQueue(f1, <<lineStart, lineEnd, y - 1, y>>) ELSE f1
    ELSE LET f1 == IF y > 0 THEN addToQueue(ff, <<lineStart, lineEnd, y - 1, y>>) ELSE ff
         IN  IF y + 1 < ff.imageData.height
             THEN addToQueue(f1, <<lineStart, lineEnd, y + 1, y>>) ELSE f1

\* the inner while loop of fillQueue, for the queue entry `line`
RECURSIVE scanLine(_, _, _)
scanLine(ff, line, currX) ==
    IF currX # -1 /\ currX <= line[2]
    THEN LET f == fillLineAt(ff, currX, line[3])
             lineStart == f.line[1]
             lineEnd == f.line[2]
             q == IF lineStart # -1
                  THEN queueNeighbours(f.ff, lineStart, lineEnd,
                                       line[1], line[2], line[3], line[4])
                  ELSE f.ff
             f1 == IF lineStart # -1
                   THEN [q EXCEPT !.spans =
                            Append(@, [line |-> line, span |-> f.line,
                                       painted |-> Len(f.ff.painted) - Len(ff.painted),
                                       added |-> SubSeq(q.queued, Len(f.ff.queued) + 1,
                                                        Len(q.queued))])]
                   ELSE q
         IN  scanLine(f1, line, IF lineEnd = -1 /\ currX <= line[2]
                                THEN currX + 1 ELSE lineEnd + 1)
    ELSE ff

\* A line is queued only for a span found, a span found holds at least one
\* pixel painted for the first time, and a span queues at most two lines: a
\* loop that ends pops at most 2 * width * height + 1 lines.  The loop is
\* followed that far; a queue that is not empty by then is answered as it is.
QueueBound(imageData) == 2 * imageData.width * imageData.height + 1

RECURSIVE fillQueue(_, _)
fillQueue(ff, pops) ==
    IF ff._queue = <<>> \/ pops >= QueueBound(ff.imageData) THEN ff
    ELSE LET n == Len(ff._queue)
             line == ff._queue[n]
         IN  fillQueue(scanLine([ff EXCEPT !._queue = SubSeq(@, 1, n - 1)], line, line[1]),
                       pops + 1)

\* FloodFill.fill; the outcome tells how the call ended
fill(ff, color, x, y, tolerance) ==
    LET f0 == [ff EXCEPT !._newColor = color,
                         !._replacedColor = getColorAtPixel(ff.imageData, x, y),
                         !._tolerance = tolerance]
    IN  IF f0._replacedColor = InvalidPixel THEN [ff |-> f0, outcome |-> "rejected"]
        ELSE IF isSameColor(f0._replacedColor, f0._newColor, f0._tolerance)
        THEN [ff |-> f0, outcome |-> "noop"]
        ELSE LET f1 == fillQueue(addToQueue(f0, <<x, x, y, -1>>), 0)
             IN  [ff |-> f1, outcome |-> IF f1._queue = <<>> THEN "filled" ELSE "hung"]

---------------------------------------------------------------------------
(* The flood fills on their own: a surface with pixels on it and one fill    *)
(* call on it.  The gesture machine stays in its initial state.              *)

\* the surfaces: width, height, the colours found on them, and the colours
\* and tolerances they are filled with
Surfaces ==
    {[width |-> 3, height |-> 3, colors |-> {White, Black},
      fillColors |-> {White, Black, Red}, tolerances |-> {0}],
     [width |-> 3, height |-> 1, colors |-> {White, OffWhite, Black},
      fillColors |-> {White, Black, Red}, tolerances |-> {0, 5}],
     [width |-> 2, height |-> 2, colors |-> {White, OffWhite, Black},
      fillColors |-> {White, Black, Red}, tolerances |-> {0, 5}]}

Buffers ==
    UNION {{[width |-> d.width, height |-> d.height, data |-> px] :
                px \in [1..(d.width * d.height) -> d.colors]} : d \in Surfaces}

SurfaceOf(pixelData) ==
    CHOOSE d \in Surfaces : d.width = pixelData.width /\ d.height = pixelData.height

InRangeSeeds(pixelData) == (0..(pixelData.width - 1)) \X (0..(pixelData.height - 1))

\* one step outside the surface, on each of its four sides
OutOfRangeSeeds(pixelData) ==
    {<<-1, 0>>, <<pixelData.width, 0>>, <<0, -1>>, <<0, pixelData.height>>}

Seeds(pixelData) == InRangeSeeds(pixelData) \cup OutOfRangeSeeds(pixelData)

FillInit ==
    /\ interactionSM = DefaultState
    /\ props = [disabled |-> FALSE, enablePanAndZoom |-> FALSE, tool |-> "FloodFill",
                clampLinesToDocument |-> FALSE, brushColor |-> "#db2727",
                brushRadius |-> 10, zoomExtents |-> zoomExtents]
    /\ view = IdentityView
    /\ points = <<>>
    /\ lines = <<>>
    /\ lazy = LazyInit
    /\ fills = <<>>
    /\ now = 0
    /\ raised = FALSE
    /\ nEvents = 0
    /\ drawing \in Buffers
    /\ undoImageQueue = <<>>
    /\ hung = FALSE
    /\ lastFill = <<>>

\* this.floodFill(ctx, x, y, fillColor); a call that never returns leaves
\* the surface as it was and the component hung
floodFillCall(x, y, fillColor) ==
    /\ lastFill = <<>>
    /\ LET r == floodFillPixels(drawing, undoImageQueue, x, y, fillColor)
       IN  /\ drawing' = r.drawing
           /\ undoImageQueue' = r.undoImageQueue
           /\ hung' = ~ r.returned
           /\ lastFill' = [by |-> "floodFill", x |-> x, y |-> y, color |-> fillColor,
                           tolerance |-> 0, before |-> drawing,
                           outcome |-> IF ~ r.returned THEN "hung"
                                       ELSE IF r.worked THEN "filled" ELSE "noop",
                           queued |-> IF r.worked THEN 1 ELSE 0,
                           left |-> IF r.returned THEN 0 ELSE 1,
                           painted |-> r.written, read |-> <<>>, lines |-> <<>>,
                           spans |-> <<>>]
    /\ UNCHANGED machineVars

\* what a call of fill that answered r leaves on the surface and in the log
FloodFill_fillReturns(r, x, y, color, tolerance) ==
    /\ drawing' = r.ff.imageData
    /\ lastFill' = [by |-> "FloodFill.fill", x |-> x, y |-> y, color |-> color,
                    tolerance |-> tolerance, before |-> drawing,
                    outcome |-> r.outcome, queued |-> Len(r.ff.queued),
                    left |-> Len(r.ff._queue),
                    painted |-> r.ff.painted, read |-> r.ff.read,
                    lines |-> r.ff.queued, spans |-> r.ff.spans]
    /\ hung' = (r.outcome = "hung")

\* new FloodFill(imageData).fill(color, x, y, tolerance) on the surface's pixels
FloodFill_fillCall(x, y, color, tolerance) ==
    /\ lastFill = <<>>
    /\ FloodFill_fillReturns(fill(NewFloodFill(drawing), color, x, y, tolerance),
                             x, y, color, tolerance)
    /\ UNCHANGED undoImageQueue
    /\ UNCHANGED machineVars

FillNext ==
    \/ \E p \in Seeds(drawing), c \in SurfaceOf(drawing).fillColors :
           floodFillCall(p[1], p[2], c)
    \/ \E p \in Seeds(drawing), c \in SurfaceOf(drawing).fillColors,
          t \in SurfaceOf(drawing).tolerances :
           FloodFill_fillCall(p[1], p[2], c, t)

FillSpec == FillInit /\ [][FillNext]_vars

---------------------------------------------------------------------------
(* The undo queue on its own: a surface of two pixels, snapshots taken of  *)
(* it, fills that change it and undo calls.                                *)

UndoSurface == [width |-> 2, height |-> 1, colors |-> {White, Black}]

UndoBuffers ==
    {[width |-> UndoSurface.width, height |-> UndoSurface.height, data |-> px] :
        px \in [1..(UndoSurface.width * UndoSurface.height) -> UndoSurface.colors]}

UndoInit ==
    /\ interactionSM = DefaultState
    /\ props = [disabled |-> FALSE, enablePanAndZoom |-> FALSE, tool |-> "FloodFill",
                clampLinesToDocument |-> FALSE, brushColor |-> "#db2727",
                brushRadius |-> 10, zoomExtents |-> zoomExtents]
    /\ view = IdentityView
    /\ points = <<>>
    /\ lines = <<>>
    /\ lazy = LazyInit
    /\ fills = <<>>
    /\ now = 0
    /\ raised = FALSE
    /\ nEvents = 0
    /\ drawing \in UndoBuffers
    /\ undoImageQueue = <<>>
    /\ hung = FALSE
    /\ lastFill = <<>>

\* the call as the log keeps it: the surface and the queue it found
CallOf(name) == [by |-> name, before |-> drawing, queue |-> undoImageQueue]

\* this.pushToUndoQueue(): a snapshot of ctx.drawing as it is
pushToUndoQueueCall ==
    /\ undoImageQueue' = pushToUndoQueue(undoImageQueue, drawing)
    /\ lastFill' = CallOf("pushToUndoQueue")
    /\ UNCHANGED <<drawing, hung>>
    /\ UNCHANGED machineVars

\* this.undo(): loadSaveData clears the component (history and view) and
\* puts the popped snapshot on ctx.drawing
undoCall ==
    /\ LET r == undo(undoImageQueue, drawing)
       IN  /\ undoImageQueue' = r.undoImageQueue
           /\ drawing' = r.drawing
           /\ lines' = IF r.loaded THEN <<>> ELSE lines
           /\ view' = IF r.loaded THEN resetView(view) ELSE view
    /\ lastFill' = CallOf("undo")
    /\ UNCHANGED <<interactionSM, props, points, lazy, fills, now, raised, nEvents, hung>>

\* this.floodFill(ctx, x, y, fillColor) with the seed on the surface: the
\* pixels change and the fill takes its own snapshot
floodFillOnSurface(x, y, fillColor) ==
    /\ LET r == floodFillPixels(drawing, undoImageQueue, x, y, fillColor)
       IN  /\ drawing' = r.drawing
           /\ undoImageQueue' = r.undoImageQueue
           /\ hung' = ~ r.returned
    /\ lastFill' = CallOf("floodFill")
    /\ UNCHANGED machineVars

UndoNext ==
    \/ pushToUndoQueueCall
    \/ undoCall
    \/ \E p \in InRangeSeeds(drawing), c \in UndoSurface.colors :
           floodFillOnSurface(p[1], p[2], c)

UndoSpec == UndoInit /\ [][UndoNext]_vars

---------------------------------------------------------------------------
(* Claims about the flood fills (specification FillSpec) *)

Neighbours4(p) ==
    {<<p[1] + 1, p[2]>>, <<p[1] - 1, p[2]>>, <<p[1], p[2] + 1>>, <<p[1], p[2] - 1>>}

\* the least set holding `region` and closed under stepping to a 4-adjacent
\* pixel of the colour `color`; `edge` holds the pixels added last
RECURSIVE Grow4(_, _, _, _)
Grow4(pixelData, color, region, edge) ==
    LET more == {q \in UNION {Neighbours4(p) : p \in edge} :
                    q \notin region /\ getPixel(pixelData, q[1], q[2]) = color}
    IN  IF more = {} THEN region
        ELSE Grow4(pixelData, color, region \cup more, more)

\* the 4-connected region of seed-coloured pixels that contains the seed
Region4(pixelData, seed) ==
    Grow4(pixelData, getPixel(pixelData, seed[1], seed[2]), {seed}, {seed})

\* the buffer with exactly the pixels of `region` recoloured
Recolored(pixelData, region, color) ==
    [pixelData EXCEPT !.data =
        [i \in 1..Len(pixelData.data) |->
            IF \E p \in region : PixelIndex(pixelData, p[1], p[2]) + 1 = i
            THEN color ELSE pixelData.data[i]]]

\* a fill call has been made, with its seed inside the surface
FilledInRange ==
    /\ lastFill # <<>>
    /\ InRange(lastFill.before, lastFill.x, lastFill.y)

\* C18: for every buffer and every in-range seed, a fill with tolerance 0
\* and a new colour other than the seed's recolours exactly the 4-connected
\* region of seed-coloured pixels around the seed and nothing else; this
\* holds for the host's floodFill and for FloodFill.fill.
C18_FillRecolorsExactlyTheRegion ==
    (/\ FilledInRange
     /\ lastFill.tolerance = 0
     /\ lastFill.color # getPixel(lastFill.before, lastFill.x, lastFill.y))
        => /\ lastFill.outcome = "filled"
           /\ drawing = Recolored(lastFill.before,
                                  Region4(lastFill.before, <<lastFill.x, lastFill.y>>),
                                  lastFill.color)

\* a fill from the corner of a surface whose white pixels touched only
\* diagonally has painted the corner alone
C18_Witness ==
    /\ FilledInRange
    /\ lastFill.outcome = "filled"
    /\ lastFill.x = 0 /\ lastFill.y = 0 /\ lastFill.color = Red
    /\ lastFill.before.data = <<White, Black, Black, Black, White, Black, Black, Black, White>>
    /\ drawing.data = <<Red, Black, Black, Black, White, Black, Black, Black, White>>

\* a fill call has been made, with its seed outside the surface
FilledOutOfRange ==
    /\ lastFill # <<>>
    /\ ~ InRange(lastFill.before, lastFill.x, lastFill.y)

\* C19: a flood fill whose seed lies outside the buffer is rejected before
\* any work begins: the call returns, no pixel is changed and no undo
\* snapshot is taken.  The host's floodFill does not return from such a call.
C19_OutOfRangeSeedIsRejected ==
    FilledOutOfRange =>
        /\ ~ hung
        /\ lastFill.outcome \notin {"hung", "filled"}
        /\ lastFill.queued = 0
        /\ drawing = lastFill.before
        /\ undoImageQueue = <<>>

\* the seed's colour before the last fill
SeedColor == getPixel(lastFill.before, lastFill.x, lastFill.y)

\* the last fill call made once more on the surface as it is now
FillAgain ==
    IF lastFill.by = "floodFill"
    THEN floodFillPixels(drawing, undoImageQueue, lastFill.x, lastFill.y, lastFill.color)
    ELSE LET r == fill(NewFloodFill(drawing), lastFill.color, lastFill.x, lastFill.y,
                       lastFill.tolerance)
         IN  [returned |-> r.outcome \in {"noop", "filled"}, drawing |-> r.ff.imageData,
              undoImageQueue |-> undoImageQueue, worked |-> r.outcome \in {"filled", "hung"}]

\* C20: a fill whose seed colour matches the new colour within the tolerance
\* (exactly, for tolerance 0 and for the host's fill) returns without
\* changing a pixel, queuing work or taking an undo snapshot; and a fill
\* repeated right after it completed, same seed and colour, changes nothing.
C20_SameColorFillIsNoOp ==
    FilledInRange =>
        /\ isSameColor(SeedColor, lastFill.color, lastFill.tolerance) =>
              /\ lastFill.outcome = "noop"
              /\ lastFill.queued = 0
              /\ drawing = lastFill.before
              /\ undoImageQueue = <<>>
        /\ ~ hung
        /\ FillAgain.returned
        /\ ~ FillAgain.worked
        /\ FillAgain.drawing = drawing
        /\ FillAgain.undoImageQueue = undoImageQueue

\* an off-white pixel filled white with tolerance 5: nothing happened
C20_Witness ==
    /\ FilledInRange
    /\ lastFill.by = "FloodFill.fill"
    /\ lastFill.tolerance = 5
    /\ SeedColor = OffWhite
    /\ lastFill.color = White
    /\ lastFill.outcome = "noop"
    /\ drawing = lastFill.before

\* C21: for every buffer and every in-range seed a flood-fill call ends:
\* the host's pixel stack and the span queue of FloodFill.fillQueue run
\* empty and the call returns.
C21_FillTerminates ==
    FilledInRange =>
        /\ ~ hung
        /\ lastFill.outcome \in {"noop", "filled"}
        /\ lastFill.left = 0

\* the span fill of an all-white 3x3 surface has painted its nine pixels
\* and emptied its queue
C21_Witness ==
    /\ FilledInRange
    /\ lastFill.by = "FloodFill.fill"
    /\ lastFill.before.data = <<White, White, White, White, White, White, White, White, White>>
    /\ lastFill.outcome = "filled"
    /\ Len(lastFill.lines) > 1
    /\ Len(lastFill.painted) = 9
    /\ lastFill.left = 0

NoDuplicates(seq) == \A i, j \in 1..Len(seq) : seq[i] = seq[j] => i = j

\* C22: during one flood-fill call each pixel is written with the new colour
\* at most once, and only pixels that matched the seed colour (within the
\* tolerance) when they were visited are written.
C22_EachPixelPaintedOnce ==
    FilledInRange =>
        /\ NoDuplicates(lastFill.painted)
        /\ \A i \in 1..Len(lastFill.painted) :
               LET p == lastFill.painted[i]
               IN  /\ InRange(lastFill.before, p[1], p[2])
                   /\ isSameColor(SeedColor, getPixel(lastFill.before, p[1], p[2]),
                                  lastFill.tolerance)
                   /\ getPixel(drawing, p[1], p[2]) = lastFill.color

\* a span fill with tolerance 5 from a white pixel has painted the off-white
\* pixel next to it as well, each once
C22_Witness ==
    /\ FilledInRange
    /\ lastFill.by = "FloodFill.fill"
    /\ lastFill.tolerance = 5
    /\ lastFill.before.data = <<White, OffWhite, Black>>
    /\ lastFill.x = 0
    /\ lastFill.color = Red
    /\ lastFill.painted = << <<0, 0>>, <<1, 0>> >>
    /\ lastFill.read = << <<0, 0>>, <<1, 0>>, <<2, 0>> >>

\* C23: for an in-range seed every queue entry [startX, endX, y, parentY] of
\* the span fill has 0 <= startX <= endX < width and 0 <= y < height, every
\* span found lies within the columns of the buffer, and every pixel read or
\* written lies inside the buffer.
C23_FillStaysInsideTheBuffer ==
    FilledInRange =>
        /\ \A i \in 1..Len(lastFill.lines) :
               LET line == lastFill.lines[i]
               IN  /\ 0 <= line[1] /\ line[1] <= line[2]
                   /\ line[2] < lastFill.before.width
                   /\ 0 <= line[3] /\ line[3] < lastFill.before.height
        /\ \A i \in 1..Len(lastFill.spans) :
               LET span == lastFill.spans[i].span
               IN  0 <= span[1] /\ span[1] <= span[2] /\ span[2] < lastFill.before.width
        /\ \A i \in 1..Len(lastFill.read) :
               InRange(lastFill.before, lastFill.read[i][1], lastFill.read[i][2])
        /\ \A i \in 1..Len(lastFill.painted) :
               InRange(lastFill.before, lastFill.painted[i][1], lastFill.painted[i][2])

\* a span fill from the middle of an all-white 3x3 surface: its first span
\* grew to both edges of the row, and rows 0 and 2 were queued for it
C23_Witness ==
    /\ FilledInRange
    /\ lastFill.by = "FloodFill.fill"
    /\ lastFill.x = 1 /\ lastFill.y = 1
    /\ lastFill.before.data = <<White, White, White, White, White, White, White, White, White>>
    /\ lastFill.outcome = "filled"
    /\ lastFill.spans[1].span = <<0, 2>>
    /\ lastFill.spans[1].added = << <<0, 2, 0, 1>>, <<0, 2, 2, 1>> >>

\* the lines fillQueue is to queue for a span found in row y while it works
\* on the entry [start, end, y, parentY], as the claim words it
LinesFor(pixelData, span, line) ==
    LET y == line[3]
        above == IF y > 0 THEN << <<span[1], span[2], y - 1, y>> >> ELSE <<>>
        below == IF y + 1 < pixelData.height
                 THEN << <<span[1], span[2], y + 1, y>> >> ELSE <<>>
    IN  IF line[4] # -1 /\ span[1] >= line[1] /\ span[2] <= line[2]
        THEN IF line[4] < y THEN below ELSE above
        ELSE above \o below

RECURSIVE AllAdded(_)
AllAdded(spans) ==
    IF spans = <<>> THEN <<>> ELSE spans[1].added \o AllAdded(Tail(spans))

\* C29: a span found in row y for an entry with parent row p # -1 that lies
\* within the entry's columns queues only the row on the far side from the
\* parent, if that row is inside the buffer; a span that reaches outside the
\* entry's columns, or a span of the seed entry, queues both neighbouring
\* rows that are inside the buffer.  Nothing is queued but the seed entry
\* and these lines, and each span holds at least one newly painted pixel.
C29_SpanRequeueGuard ==
    (FilledInRange /\ lastFill.by = "FloodFill.fill" /\ lastFill.outcome = "filled") =>
        /\ \A i \in 1..Len(lastFill.spans) :
               LET s == lastFill.spans[i]
               IN  /\ s.added = LinesFor(lastFill.before, s.span, s.line)
                   /\ s.painted >= 1
        /\ lastFill.lines =
               << <<lastFill.x, lastFill.x, lastFill.y, -1>> >> \o AllAdded(lastFill.spans)

\* a span found inside its entry's columns, coming from the row below:
\* only the row above it was queued
C29_Witness ==
    /\ FilledInRange
    /\ lastFill.by = "FloodFill.fill"
    /\ lastFill.outcome = "filled"
    /\ \E i \in 1..Len(lastFill.spans) :
           LET s == lastFill.spans[i]
           IN  /\ s.line[4] = 2 /\ s.line[3] = 1
               /\ s.span[1] >= s.line[1] /\ s.span[2] <= s.line[2]
               /\ s.added = << <<s.span[1], s.span[2], 0, 1>> >>

----------------------------------------------------------------------------
(* Claims about the viewport (specification ViewSpec) *)

ScaleInExtents(v, extents) ==
    /\ v.scale[1] # 0
    /\ RLe(extents.min, v.scale)
    /\ RLe(v.scale, extents.max)

KeepsScaleInExtents(v, deltaScale) ==
    /\ RLe(scaleExtents.min, RAdd(v.scale, deltaScale))
    /\ RLe(RAdd(v.scale, deltaScale), scaleExtents.max)

\* the point p of the client has the same document point under v and w
SameDocumentPoint(v, w, p) == clientPointToViewPoint(v, p) = clientPointToViewPoint(w, p)

(* C25: anchor invariance.  Whenever a wheel event in Default, or a        *)
(* two-touch move that is handled as a TouchScale move (in TouchScale, or   *)
(* in ScaleOrPan on the move that enters TouchScale), asks for a change of  *)
(* scale that keeps the scale within the extents, the document point under  *)
(* the anchor (the cursor, resp. the centroid of the two touches) is the    *)
(* same before and after the event.                                         *)
C25_AnchorInvariance ==
    /\ interactionSM.type = "Default" =>
           \A e \in WheelEvents :
               LET deltaScale == RMul(mouseZoomFactor, RInt(e.deltaY))
                   r == handleMouseWheelOf(interactionSM, e, Entry)
               IN  KeepsScaleInExtents(view, deltaScale) =>
                       SameDocumentPoint(view, r.cd.view, RPt(clientPointFromEvent(e)))
    /\ interactionSM.type \in {"ScaleOrPan", "TouchScale"} =>
           \A e \in TwoTouchEvents({FALSE}) :
               LET deltaScale == RSub(TargetScale(interactionSM, e), view.scale)
                   r == handleDrawMoveOf(interactionSM, e, Entry)
               IN  r.sm.type = "TouchScale" /\ KeepsScaleInExtents(view, deltaScale) =>
                       SameDocumentPoint(view, r.cd.view, getTouchMetrics(e).centroid)

\* a TouchScale move has scaled the view, within the extents, about a
\* centroid that is not the origin of the client: the pan moved with it
C25_Witness ==
    /\ interactionSM.type = "TouchScale"
    /\ view.scale # interactionSM.scaleStart[1]
    /\ RLt(scaleExtents.min, view.scale)
    /\ RLt(view.scale, scaleExtents.max)
    /\ view.x # interactionSM.panStart[1].x

----------------------------------------------------------------------------
(* Claims about wheel, disabling and panning (specification Spec) *)

(* C26: a wheel event handled by Default changes the view only when the    *)
(* disabled flag is clear, pan/zoom is enabled and ctrl is held; the view   *)
(* is then the old one scaled by mouseZoomFactor * deltaY about the         *)
(* cursor's client point, and in every other case it is the old view.  The  *)
(* next state is Disabled when the disabled flag is set and Default         *)
(* otherwise; nothing else of the component changes.                        *)
C26_WheelZoomInDefault ==
    interactionSM.type = "Default" =>
        \A e \in WheelEvents :
            LET r == handleMouseWheelOf(interactionSM, e, Entry)
                zooms == ~ props.disabled /\ props.enablePanAndZoom /\ e.ctrlKey
            IN  /\ r.cd.view =
                       IF zooms
                       THEN scaleAtClientPoint(view, RMul(mouseZoomFactor, RInt(e.deltaY)),
                                               RPt(clientPointFromEvent(e)))
                       ELSE view
                /\ r.cd.view # view => zooms
                /\ r.sm = IF props.disabled THEN DisabledState ELSE DefaultState
                /\ r.cd = [Entry EXCEPT !.view = r.cd.view]

\* Default after a ctrl+wheel of deltaY = 100 at (6, 6) on the initial view:
\* the scale is 1 + 0.01 * 100 = 2 and (6, 6) still shows document (6, 6)
C26_Witness ==
    /\ interactionSM.type = "Default"
    /\ ~ props.disabled
    /\ props.enablePanAndZoom
    /\ nEvents = 1
    /\ view = [x |-> RInt(-6), y |-> RInt(-6), scale |-> RInt(2)]

\* what the machine answers to every event it can be handed, from state s
\* and component cd: the pairs (returned state, canvasDraw)
MachineOutcomes(s, cd) ==
    {handleMouseWheelOf(s, e, cd) : e \in WheelEvents}
    \cup {handleDrawStartOf(s, c[1], cd, c[2]) : c \in StartCalls}
    \cup {handleDrawMoveOf(s, e, cd) : e \in DrawMoveEvents}
    \cup {handleDrawEndOf(s, e, cd) : e \in DrawEndEvents}

\* the component with the disabled flag cleared
Enabled(cd) == [cd EXCEPT !.props.disabled = FALSE]

(* C27: Disabled is entered from Default only.  No event handled by Pan,   *)
(* WaitForPinch, ScaleOrPan, TouchPan, TouchScale or Drawing returns        *)
(* Disabled, and with the disabled flag set each of them answers every      *)
(* event exactly as with the flag clear (the gesture is not interrupted);   *)
(* Default with the flag set answers every event with Disabled.             *)
C27_DisabledEnteredFromDefaultOnly ==
    /\ interactionSM.type \in GestureTypes =>
           LET outcomes == MachineOutcomes(interactionSM, Entry)
           IN  /\ \A r \in outcomes : r.sm.type # "Disabled"
               /\ props.disabled =>
                      outcomes = {[r EXCEPT !.cd.props = props] :
                                     r \in MachineOutcomes(interactionSM, Enabled(Entry))}
    /\ (interactionSM.type = "Default" /\ props.disabled) =>
           \A r \in MachineOutcomes(interactionSM, Entry) : r.sm = DisabledState

\* a pan gesture under way, the view moved, with the disabled flag set: Pan
\* is entered from Default with the flag clear, so the flag was set while
\* the machine was in Pan
C27_Witness ==
    /\ interactionSM.type = "Pan"
    /\ props.disabled
    /\ view.x = RInt(6)

\* the same component with the pan somewhere else
PannedElsewhere(cd) == [cd EXCEPT !.view.x = RInt(1000), !.view.y = RInt(-1000)]

(* C28: in Pan every draw-move leaves the machine in Pan with the pan      *)
(* offset equal to the pan captured at the Pan draw-start plus (client      *)
(* point of the event - drag origin captured at the draw-start), the scale  *)
(* unchanged; the result is the same whatever the pan was before the move,  *)
(* so a move back to the drag origin restores the captured pan.  A          *)
(* two-touch move handled as a TouchPan move (in TouchPan, or in ScaleOrPan *)
(* on the move that enters TouchPan) does the same with the centroid of the *)
(* touches and the baseline captured by ScaleOrPan.                         *)
C28_PanFollowsDragFromOrigin ==
    /\ interactionSM.type = "Pan" =>
           \A e \in DrawMoveEvents :
               LET c == clientPointFromEvent(e)
                   origin == interactionSM.dragStart[1]
                   panStart == interactionSM.panStart[1]
                   r == handleDrawMoveOf(interactionSM, e, Entry)
               IN  /\ r.sm = interactionSM
                   /\ r.cd.view =
                          [x |-> RAdd(panStart.x, RInt(c.clientX - origin.clientX)),
                           y |-> RAdd(panStart.y, RInt(c.clientY - origin.clientY)),
                           scale |-> view.scale]
                   /\ handleDrawMoveOf(interactionSM, e, PannedElsewhere(Entry)).cd.view
                          = r.cd.view
                   /\ c = origin => (r.cd.view.x = panStart.x /\ r.cd.view.y = panStart.y)
    /\ interactionSM.type \in {"ScaleOrPan", "TouchPan"} =>
           \A e \in TwoTouchMoves :
               LET c == getTouchMetrics(e).centroid
                   origin == interactionSM.start[1].centroid
                   panStart == interactionSM.panStart[1]
                   r == handleDrawMoveOf(interactionSM, e, Entry)
               IN  r.sm.type = "TouchPan" =>
                       /\ r.cd.view =
                              [x |-> RAdd(panStart.x, RSub(c.x, origin.x)),
                               y |-> RAdd(panStart.y, RSub(c.y, origin.y)),
                               scale |-> view.scale]
                       /\ handleDrawMoveOf(interactionSM, e, PannedElsewhere(Entry)).cd.view
                              = r.cd.view
                       /\ c = origin => (r.cd.view.x = panStart.x /\ r.cd.view.y = panStart.y)

\* a pan that started at (0, 0) on the view zoomed to 2 (pan -6) and moved
\* the pointer to (6, 6): the pan is -6 + 6 = 0
C28_Witness ==
    /\ interactionSM.type = "Pan"
    /\ interactionSM.dragStart[1] = Pt(0, 0)
    /\ interactionSM.panStart[1] = [x |-> RInt(-6), y |-> RInt(-6)]
    /\ view = [x |-> RInt(0), y |-> RInt(0), scale |-> RInt(2)]

PinchTypes == {"ScaleOrPan", "TouchPan", "TouchScale"}

(* C30: a draw-move with two or more touches handled by WaitForPinch, and  *)
(* with pan/zoom enabled a draw-start with two or more touches, yields      *)
(* ScaleOrPan whatever the time elapsed, and the buffered points are        *)
(* dropped: the new state holds none, and the event leaves the in-progress  *)
(* stroke, the history and the smoothing filter as they were and fills      *)
(* nothing.  They cannot come back: only WaitForPinch holds buffered        *)
(* points, and no event handled by ScaleOrPan, TouchPan or TouchScale       *)
(* touches the stroke, the history or the filter.                           *)
C30_SecondTouchDropsBuffer ==
    /\ interactionSM.type = "WaitForPinch" =>
           \A r \in {handleDrawMoveOf(interactionSM, e, Entry) : e \in TwoTouchMoves}
                    \cup {handleDrawStartOf(interactionSM, e, Entry, FALSE) :
                             e \in {t \in TwoTouchEvents(BOOLEAN) : props.enablePanAndZoom}} :
               /\ r.sm.type = "ScaleOrPan"
               /\ r.sm.deferredPoints = <<>>
               /\ r.sm.startClientPoint = <<>>
               /\ r.cd = Entry
    /\ interactionSM.type # "WaitForPinch" => interactionSM.deferredPoints = <<>>
    /\ interactionSM.type \in PinchTypes =>
           \A r \in MachineOutcomes(interactionSM, Entry) :
               /\ r.cd.points = points
               /\ r.cd.lines = lines
               /\ r.cd.lazy = lazy
               /\ r.cd.fills = <<>>

\* ScaleOrPan on the second event, 250 ms after the first: the first was a
\* single touch that WaitForPinch buffered, the second carried two touches
\* after the timeout, and nothing was drawn
C30_Witness ==
    /\ interactionSM.type = "ScaleOrPan"
    /\ nEvents = 2
    /\ now = PINCH_TIMEOUT_MS
    /\ points = <<>>
    /\ lines = <<>>
    /\ lazy = LazyInit

----------------------------------------------------------------------------
(* Claims about the wait for a second touch (specification Spec) *)

\* the summed Manhattan lengths of the steps of the path pts
RECURSIVE PathLength(_)
PathLength(pts) ==
    IF Len(pts) < 2 THEN 0
    ELSE Manhattan(pts[1], pts[2]) + PathLength(Tail(pts))

\* every point of pts is closer than the slop to the first one
AllNearFirst(pts) == \A i \in 1..Len(pts) : Manhattan(pts[i], pts[1]) < TOUCH_SLOP

(* C31: in WaitForPinch, within the timeout, a single-touch move whose     *)
(* point is closer than 10 to the first buffered point keeps the machine in *)
(* WaitForPinch however long the path travelled is, and the answer to a     *)
(* single-touch move is the same as when the points buffered between the    *)
(* first and the current one had never arrived.                             *)
C31_SlopMeasuredFromFirstPoint ==
    interactionSM.type = "WaitForPinch" =>
        \A e \in OneTouchMoves :
            LET r == handleDrawMoveOf(interactionSM, e, Entry)
                direct == handleDrawMoveOf(
                              [interactionSM EXCEPT !.deferredPoints = <<@[1]>>], e, Entry)
                buffered == Append(interactionSM.deferredPoints, e.touches[1])
            IN  /\ (r.sm.type = "WaitForPinch") <=> (direct.sm.type = "WaitForPinch")
                /\ (now - interactionSM.startTimestamp < PINCH_TIMEOUT_MS
                       /\ AllNearFirst(buffered))
                      => r.sm.type = "WaitForPinch" /\ r.sm.deferredPoints = buffered

\* still waiting, within the timeout, after (0, 0), (6, 0), (0, 0) or the
\* like: the steps sum to 12, no point is further than 6 from the first
C31_Witness ==
    /\ interactionSM.type = "WaitForPinch"
    /\ now - interactionSM.startTimestamp < PINCH_TIMEOUT_MS
    /\ Len(interactionSM.deferredPoints) = 3
    /\ PathLength(interactionSM.deferredPoints) >= TOUCH_SLOP
    /\ AllNearFirst(interactionSM.deferredPoints)

(* C32: the pinch timeout is looked at only when an event arrives.  A step *)
(* that dispatches no input event (time passing, the parent updating the    *)
(* props) leaves the state object, the in-progress stroke, the history, the *)
(* smoothing filter and the recorded fills as they are: a machine waiting   *)
(* in WaitForPinch goes on waiting, its buffered points undrawn, however    *)
(* much time passes.                                                        *)
C32_TimeAloneNeverEndsTheWait ==
    [][nEvents' = nEvents =>
          /\ interactionSM' = interactionSM
          /\ points' = points
          /\ lines' = lines
          /\ lazy' = lazy
          /\ fills' = fills]_vars

\* still waiting with the timeout elapsed: one point buffered, none drawn
C32_Witness ==
    /\ interactionSM.type = "WaitForPinch"
    /\ now - interactionSM.startTimestamp >= PINCH_TIMEOUT_MS
    /\ Len(interactionSM.deferredPoints) = 1
    /\ points = <<>>
    /\ lines = <<>>

----------------------------------------------------------------------------
(* The component with pan/zoom off from its construction on: the parent    *)
(* may change every other prop.  The clock is left out: it is read by       *)
(* WaitForPinchState only.                                                  *)

NoPanZoomPropsSet == {p \in PropsSet : ~ p.enablePanAndZoom}

NoPanZoomInit ==
    /\ interactionSM = DefaultState
    /\ props \in NoPanZoomPropsSet
    /\ view = IdentityView
    /\ points = <<>>
    /\ lines = <<>>
    /\ lazy = LazyInit
    /\ fills = <<>>
    /\ now = 0
    /\ raised = FALSE
    /\ nEvents = 0
    /\ drawing = NoPixels
    /\ undoImageQueue = <<>>
    /\ hung = FALSE
    /\ lastFill = <<>>

NoPanZoomNext ==
    \/ \E e \in WheelEvents : handleWheel(e)
    \/ \E handler \in StartHandlers : \E e \in StartEvents(handler) :
           handleDrawStart(handler, e)
    \/ \E e \in DrawMoveEvents : handleDrawMove(e)
    \/ \E e \in DrawEndEvents : handleDrawEnd(e)
    \/ \E p \in NoPanZoomPropsSet : componentDidUpdate(p)

NoPanZoomSpec == NoPanZoomInit /\ [][NoPanZoomNext]_vars

---------------------------------------------------------------------------
\* the brush position outcome r leaves, as clampPointToDocument stores it
BrushOf(r) == clampPointToDocument(r.cd, r.cd.lazy.brush)

\* outcome r of an event handled by Drawing state s appended the brush
\* position to the stroke: twice on the first event, once on a later one
AppendsBrush(s, r) ==
    StrokeAfter(r) = points \o (IF s.isDrawing THEN <<BrushOf(r)>>
                                ELSE <<BrushOf(r), BrushOf(r)>>)

\* outcome r left the stroke and the history as they were
NoAppend(r) == r.cd.points = points /\ r.cd.lines = lines

\* outcome r of an event handled outside Drawing: nothing is appended
\* unless the event was handed to a new Drawing state, alone (one event,
\* two points) or behind the points WaitForPinch had buffered
EntersDrawingOrNoAppend(r) ==
    IF r.sm.type # "Drawing" THEN NoAppend(r)
    ELSE props.tool = "Pencil" =>
            \/ r.cd.points = points \o <<BrushOf(r), BrushOf(r)>>
            \/ /\ interactionSM.type = "WaitForPinch"
               /\ Len(r.cd.points) = Len(points) + Len(interactionSM.deferredPoints) + 2
               /\ r.cd.points[Len(r.cd.points)] = BrushOf(r)

\* the gestures of up to MaxEvents single-point events
GesturePts == UNION {[1..k -> SinglePts] : k \in 1..MaxEvents}

---------------------------------------------------------------------------
\* outcome r keeps every stroke committed so far as it is
KeepsHistory(r) ==
    /\ Len(r.cd.lines) >= Len(lines)
    /\ SubSeq(r.cd.lines, 1, Len(lines)) = lines

---------------------------------------------------------------------------
\* the surface the other flood fill leaves when it is given the surface,
\* the seed and the colour of the last fill call
OtherFill ==
    IF lastFill.by = "floodFill"
    THEN fill(NewFloodFill(lastFill.before), lastFill.color,
              lastFill.x, lastFill.y, 0).ff.imageData
    ELSE floodFillPixels(lastFill.before, <<>>, lastFill.x, lastFill.y,
                         lastFill.color).drawing

(* C36: for every buffer, every in-range seed and every fill colour, with  *)
(* tolerance 0 the span-based FloodFill.fill and the host's per-pixel      *)
(* stack floodFill leave the same final buffer.                            *)
C36_SpanFillEqualsStackFill ==
    (FilledInRange /\ lastFill.tolerance = 0) =>
        /\ lastFill.outcome \in {"noop", "filled"}
        /\ drawing = OtherFill

\* the host's fill from the centre of a surface with one black corner has
\* painted the eight white pixels, as the span fill does
C36_Witness ==
    /\ FilledInRange
    /\ lastFill.by = "floodFill"
    /\ lastFill.x = 1 /\ lastFill.y = 1 /\ lastFill.color = Red
    /\ lastFill.before.data = <<Black, White, White, White, White, White, White, White, White>>
    /\ drawing.data = <<Black, Red, Red, Red, Red, Red, Red, Red, Red>>
    /\ drawing = OtherFill

---------------------------------------------------------------------------
(* Claims about the undo queue (specification UndoSpec) *)

\* the queue without its newest snapshot
Older(queue) == SubSeq(queue, 1, Len(queue) - 1)

(* C37: the undo queue never holds more than 6 snapshots; a push onto a    *)
(* queue of fewer than 6 appends the snapshot, a push onto a full queue    *)
(* replaces the newest snapshot and keeps the five older ones; undo        *)
(* removes the newest snapshot and makes it the pixel buffer; undo on an   *)
(* empty queue changes neither the queue nor the pixel buffer.             *)
C37_UndoQueueBounded ==
    /\ Len(undoImageQueue) <= 6
    /\ (lastFill # <<>> /\ lastFill.by = "pushToUndoQueue") =>
          /\ drawing = lastFill.before
          /\ undoImageQueue # <<>>
          /\ undoImageQueue[Len(undoImageQueue)] = lastFill.before
          /\ Older(undoImageQueue)
               = IF Len(lastFill.queue) >= 6 THEN Older(lastFill.queue)
                 ELSE lastFill.queue
    /\ (lastFill # <<>> /\ lastFill.by = "undo") =>
          IF lastFill.queue = <<>>
          THEN undoImageQueue = <<>> /\ drawing = lastFill.before
          ELSE /\ undoImageQueue = Older(lastFill.queue)
               /\ drawing = lastFill.queue[Len(lastFill.queue)]

\* a snapshot was pushed onto a full queue whose newest snapshot differed
\* from it and from the oldest: the oldest is still there, the newest is
\* the one pushed
C37_Witness ==
    /\ lastFill # <<>>
    /\ lastFill.by = "pushToUndoQueue"
    /\ Len(lastFill.queue) = 6
    /\ lastFill.queue[6] # lastFill.before
    /\ lastFill.queue[1] # lastFill.queue[2]
    /\ Len(undoImageQueue) = 6
    /\ undoImageQueue[1] = lastFill.queue[1]
    /\ undoImageQueue[6] = drawing

====
